---- MODULE Spec2Model ----
(***************************************************************************)
(* Self-Debugging Code Assistant: the rate limiter (lib/ratelimit), the    *)
(* buffered repair pipeline (POST /api/debug) and the collaborators they   *)
(* call, as state machines.                                                *)
(*                                                                         *)
(*   Spec    the buffered pipeline handling requests one after another     *)
(*           against the shared counter store                              *)
(*   SpecRL  checkRateLimit calls whose store operations interleave         *)
(***************************************************************************)
EXTENDS Integers, Sequences, FiniteSets, TLC

(***************************************************************************)
(* Program constants                                                       *)
(***************************************************************************)
MAX_REQUESTS_PER_HOUR == 3
RATE_LIMIT_WINDOW_SECONDS == 3600
MAX_CODE_LENGTH == 10000
MAX_LINES == 500

(***************************************************************************)
(* Bounds of the model                                                     *)
(***************************************************************************)
\* checkRateLimit calls of SpecRL per behaviour
NumCalls == 4
\* events of the environment per behaviour: the clock advancing to the next
\* instant, a store operation failing
MaxEnvEvents == 2
\* requests the buffered pipeline handles per behaviour
MaxRequests == 4
\* checkRateLimit calls in flight at one time
MaxInFlight == 2
\* lines a program logs in one run
MaxOutputs == 3
\* requests the streaming pipeline handles per behaviour
MaxStreamRequests == 4
\* the longest chunk of provider text in one reasoning-chunk event
MaxChunkLen == 5
\* the longest step log given to DebugResults
MaxLogLen == 3
\* the most a read of the response body returns, in tokens of the wire
MaxReadLen == 6
\* the reads of one response that may end inside a message
MaxCuts == 2
\* the longest identity, in characters, besides the addresses
MaxIdLen == 2

\* the instants (milliseconds) at which the clock is read: the clock advances
\* by a sub-second step and by a whole window in turn
SubSecondStep == 300
Instant(n) == (n \div 2) * (RATE_LIMIT_WINDOW_SECONDS * 1000) + ((n + 1) \div 2) * SubSecondStep

None == "none"

(***************************************************************************)
(* Identities and store keys.  A string is a sequence of characters.       *)
(***************************************************************************)
KeptChars == {"1", "2", "a", "b", ".", ":"}

IPs == { <<"1", ".", "2">>, <<"a", ":", "b", "/">> }

\* a replacement of every character that is no letter and no digit
SanitizeIpAlphanumeric(ip) == SelectSeq(ip, LAMBDA ch : ch \in {"1", "2", "a", "b"})

\* ip.replace(/[^a-zA-Z0-9.:]/g, '')
SanitizeIp(ip) == SelectSeq(ip, LAMBDA ch : ch \in KeptChars)

\* `ratelimit:${sanitizedIp}`
KeyOf(ip) == <<"ratelimit:">> \o SanitizeIp(ip)

Keys == { KeyOf(ip) : ip \in IPs }

(***************************************************************************)
(* The counter store (kv): per key a count and an expiry.  count = 0 is an *)
(* absent key, expireAt = NoExpiry a key without a TTL.  start records the  *)
(* time of the increment that created the key, which identifies the window *)
(* (history, read by no operation of the program).                         *)
(***************************************************************************)
NoExpiry == -1

AbsentRec == [count |-> 0, expireAt |-> NoExpiry, start |-> NoExpiry]

Live(rec, t) == rec.count > 0 /\ (rec.expireAt = NoExpiry \/ t < rec.expireAt)

\* the record of key as the store sees it at time t: an expired key is absent
Current(s, key, t) == IF Live(s[key], t) THEN s[key] ELSE AbsentRec

\* an increment by two
IncrValueByTwo(old) == old + 2

\* kv.incr's new value: atomic increment
IncrValue(old) == old + 1

\* kv.incr(key) at time t
KvIncr(s, key, t) ==
    LET cur == Current(s, key, t) IN
    IF cur.count = 0
    THEN [s EXCEPT ![key] = [count |-> IncrValue(0), expireAt |-> NoExpiry, start |-> t]]
    ELSE [s EXCEPT ![key] = [cur EXCEPT !.count = IncrValue(cur.count)]]

\* kv.expire(key, seconds) at time t
KvExpire(s, key, seconds, t) ==
    LET cur == Current(s, key, t) IN
    IF cur.count = 0 THEN [s EXCEPT ![key] = cur]
    ELSE [s EXCEPT ![key] = [cur EXCEPT !.expireAt = t + seconds * 1000]]

\* kv.ttl(key) at time t: -2 for an absent key, -1 for a key without expiry,
\* else the remaining time in whole seconds (truncated or rounded to nearest,
\* as the store implements it)
KvTtlReplies(s, key, t) ==
    LET cur == Current(s, key, t) IN
    IF cur.count = 0 THEN {-2}
    ELSE IF cur.expireAt = NoExpiry THEN {-1}
    ELSE { (cur.expireAt - t) \div 1000, (cur.expireAt - t + 500) \div 1000 }

(***************************************************************************)
(* checkRateLimit                                                          *)
(***************************************************************************)
Max(a, b) == IF a >= b THEN a ELSE b
Min(a, b) == IF a <= b THEN a ELSE b

\* an expiry on every increment
EveryIncrement(count) == count >= 1

\* if (count === 1): the increment created the key
FirstIncrement(count) == count = 1

\* a strict comparison, as getRateLimitStatus has it
AllowedStrict(count) == count < MAX_REQUESTS_PER_HOUR

\* const allowed = count <= MAX_REQUESTS_PER_HOUR
Allowed(count) == count <= MAX_REQUESTS_PER_HOUR

\* a remaining quota that is not clamped at zero
RemainingUnclamped(count) == MAX_REQUESTS_PER_HOUR - count

\* const remaining = Math.max(0, MAX_REQUESTS_PER_HOUR - count)
Remaining(count) == Max(0, MAX_REQUESTS_PER_HOUR - count)

\* const resetIn = ttl > 0 ? ttl : RATE_LIMIT_WINDOW_SECONDS
ResetIn(ttl) == IF ttl > 0 THEN ttl ELSE RATE_LIMIT_WINDOW_SECONDS

\* the result of the try block, the clock read at t
RateLimitResult(count, ttl, t) ==
    [allowed |-> Allowed(count), limit |-> MAX_REQUESTS_PER_HOUR,
     remaining |-> Remaining(count),
     resetAt |-> t + ResetIn(ttl) * 1000, resetIn |-> ResetIn(ttl)]

\* a catch block that rejects when the store is unreachable
FailClosedResult(t) ==
    [allowed |-> FALSE, limit |-> MAX_REQUESTS_PER_HOUR, remaining |-> 0,
     resetAt |-> t + RATE_LIMIT_WINDOW_SECONDS * 1000,
     resetIn |-> RATE_LIMIT_WINDOW_SECONDS]

\* the result of the catch block: fail open
FailOpenResult(t) ==
    [allowed |-> TRUE, limit |-> MAX_REQUESTS_PER_HOUR,
     remaining |-> MAX_REQUESTS_PER_HOUR,
     resetAt |-> t + RATE_LIMIT_WINDOW_SECONDS * 1000,
     resetIn |-> RATE_LIMIT_WINDOW_SECONDS]

NoResult == [allowed |-> FALSE, limit |-> 0, remaining |-> 0, resetAt |-> 0, resetIn |-> 0]

\* the sequential run of checkRateLimit(ip) at time t against store s, with
\* the store operation failAt throwing (None: none does): the possible pairs
\* of the store afterwards and the returned result
CheckRateLimit(s, ip, t, failAt) ==
    LET key == KeyOf(ip)
        s1 == KvIncr(s, key, t)
        count == s1[key].count
        s2 == IF FirstIncrement(count) THEN KvExpire(s1, key, RATE_LIMIT_WINDOW_SECONDS, t) ELSE s1
    IN  IF failAt = "incr" THEN { [store |-> s, result |-> FailOpenResult(t)] }
        ELSE IF failAt = "expire" /\ FirstIncrement(count)
        THEN { [store |-> s1, result |-> FailOpenResult(t)] }
        ELSE IF failAt = "ttl" THEN { [store |-> s2, result |-> FailOpenResult(t)] }
        ELSE { [store |-> s2, result |-> RateLimitResult(count, ttl, t)] :
                    ttl \in KvTtlReplies(s2, key, t) }

\* checkRateLimitOrThrow: throws RateLimitError(result) when not allowed
CheckRateLimitOrThrow(result) == [threw |-> ~result.allowed, result |-> result]

(***************************************************************************)
(* Submitted and generated code.  A code is named by a string; Shape gives *)
(* what the validator and the sandbox read of it.                          *)
(***************************************************************************)
\* an optional field that is not set (undefined)
Absent == "<absent>"

EmptyCode == ""
UserCodes == {"prog", "blank", "tooLong", "tooManyLines"}
FixCodes == {"fixA", "fixB", EmptyCode}

\* what sanitizeCode reads of a code: code.length, code.split('\n').length,
\* whether code.trim() is empty, the length of its longest line and of its
\* longest run of base64 characters
Shape(code) ==
    CASE code = EmptyCode ->
            [length |-> 0, lines |-> 1, blank |-> TRUE, longest |-> 0, base64 |-> 0]
      [] code = "blank" ->
            [length |-> 3, lines |-> 2, blank |-> TRUE, longest |-> 2, base64 |-> 0]
      [] code = "tooLong" ->
            [length |-> MAX_CODE_LENGTH + 1, lines |-> 1, blank |-> FALSE,
             longest |-> MAX_CODE_LENGTH + 1, base64 |-> 40]
      [] code = "tooManyLines" ->
            [length |-> 2 * MAX_LINES, lines |-> MAX_LINES + 1, blank |-> FALSE,
             longest |-> 1, base64 |-> 1]
      [] OTHER ->
            [length |-> 60, lines |-> 4, blank |-> FALSE, longest |-> 20, base64 |-> 7]

(***************************************************************************)
(* sanitizeCode                                                            *)
(***************************************************************************)
\* limits that reject a code of exactly the maximum
ValidateCodeSizeStrict(shape) ==
    (IF shape.length >= MAX_CODE_LENGTH THEN <<"Code exceeds maximum length">> ELSE <<>>)
    \o (IF shape.lines >= MAX_LINES THEN <<"Code exceeds maximum of lines">> ELSE <<>>)

\* validateCodeSize: the error messages
ValidateCodeSize(shape) ==
    (IF shape.length > MAX_CODE_LENGTH THEN <<"Code exceeds maximum length">> ELSE <<>>)
    \o (IF shape.lines > MAX_LINES THEN <<"Code exceeds maximum of lines">> ELSE <<>>)

\* a line longer than this, or a run of base64 characters at least this
\* long, is suspicious
LongLine == 500

\* checkSuspiciousPatterns: the warnings
CheckSuspiciousPatterns(shape) ==
    (IF shape.longest > LongLine THEN <<"Found very long lines">> ELSE <<>>)
    \o (IF shape.base64 >= LongLine THEN <<"Found very large base64-like strings">> ELSE <<>>)

SanitizeCode(shape) ==
    IF shape.length = 0 \/ shape.blank
    THEN [isValid |-> FALSE, errors |-> <<"Code cannot be empty">>, warnings |-> <<>>]
    ELSE [isValid |-> ValidateCodeSize(shape) = <<>>, errors |-> ValidateCodeSize(shape),
          warnings |-> CheckSuspiciousPatterns(shape)]

(***************************************************************************)
(* executeCode.  The isolate is created and set up, the wrapped program is *)
(* compiled and run; while it runs it logs lines, and it completes, throws *)
(* a value or is stopped at the timeout.                                   *)
(***************************************************************************)
\* the text the catch block searches the message for
TimedOutText == "Script execution timed out"

\* no error field (undefined)
NoError == Absent

\* what is thrown to the catch block of executeJavaScript: an Error with its
\* message, a primitive that has no message property (a string), or null
IsolateError == [kind |-> "Error", message |-> "Isolate could not be created"]
CompileError == [kind |-> "Error", message |-> "Unexpected token"]
TimeoutError == [kind |-> "Error", message |-> TimedOutText \o "."]
RuntimeError == [kind |-> "Error", message |-> "x is not defined"]
NullThrown   == [kind |-> "null", message |-> Absent]

\* the values a program can make script.run reject with
ProgramThrows ==
    { RuntimeError,
      [kind |-> "Error", message |-> ""],
      [kind |-> "Error", message |-> "gave up: " \o TimedOutText],
      [kind |-> "string", message |-> Absent],
      NullThrown }

\* text occurs in s at position i
OccursAt(s, i, text) ==
    /\ i >= 1
    /\ i + Len(text) - 1 <= Len(s)
    /\ SubSeq(s, i, i + Len(text) - 1) = text

\* s.includes(text)
Includes(s, text) == \E i \in 1 .. Len(s) + 1 : OccursAt(s, i, text)

\* outputs.join('\n')
RECURSIVE Join(_)
Join(lines) ==
    IF lines = <<>> THEN ""
    ELSE IF Len(lines) = 1 THEN lines[1]
    ELSE lines[1] \o "\n" \o Join(Tail(lines))

\* a timeout told by the signal that killed a child process
TimedOutBySignal(error) == "undefined"

\* const timedOut = error.message?.includes('Script execution timed out'):
\* "true", "false", or "undefined" when the thrown value has no message
TimedOut(error) ==
    IF error.kind # "Error" THEN "undefined"
    ELSE IF Includes(error.message, TimedOutText) THEN "true" ELSE "false"

\* the result of a call that raised instead of returning
Raised ==
    [raised |-> TRUE, success |-> FALSE, stdout |-> "", error |-> NoError, timedOut |-> "undefined"]

\* the return of the try block, after script.run resolved
Completed(outputs) ==
    [raised |-> FALSE, success |-> TRUE, stdout |-> Join(outputs), error |-> NoError,
     timedOut |-> "false"]

\* the catch block of executeJavaScript: reading error.message of null throws
CatchBlock(error, outputs) ==
    IF error.kind = "null" THEN Raised
    ELSE [raised |-> FALSE, success |-> FALSE, stdout |-> Join(outputs),
          error |-> IF TimedOut(error) = "true"
                    THEN "Execution timed out after 5000ms"
                    ELSE IF error.kind = "Error" /\ error.message # "" THEN error.message
                    ELSE "Unknown execution error",
          timedOut |-> TimedOut(error)]

\* executeCode's return for empty code
EmptyCodeResult ==
    [raised |-> FALSE, success |-> FALSE, stdout |-> "", error |-> "Code cannot be empty",
     timedOut |-> "false"]

\* the runs of a program the pipelines are checked with: it logs its output
\* and completes, or it logs nothing and throws an Error, runs into the
\* timeout, or throws null
Runs == {"completes", "throws", "timesOut", "throwsNull"}

ThrownBy(run) ==
    CASE run = "timesOut"   -> TimeoutError
      [] run = "throwsNull" -> NullThrown
      [] OTHER              -> RuntimeError

ExecuteJavaScript(code, run) ==
    IF run = "completes" THEN Completed(<<code>>) ELSE CatchBlock(ThrownBy(run), <<>>)

ExecuteCode(code, run) ==
    IF Shape(code).length = 0 \/ Shape(code).blank
    THEN EmptyCodeResult
    ELSE ExecuteJavaScript(code, run)

(***************************************************************************)
(* suggestFix.  The provider answers with JSON that conforms to            *)
(* FixSuggestionSchema, with JSON that does not (a field is missing, or    *)
(* confidence is the string 429), with text that is no JSON, or fails (a   *)
(* quota failure or another one).                                          *)
(***************************************************************************)
ProviderReplies ==
    { [kind |-> "json", is_malicious |-> FALSE, fixed_code |-> c] : c \in FixCodes \ {EmptyCode} }
    \cup { [kind |-> "json", is_malicious |-> TRUE, fixed_code |-> c] : c \in {EmptyCode, "fixA"} }
    \cup { [kind |-> k, is_malicious |-> FALSE, fixed_code |-> EmptyCode] :
                k \in {"nonconforming", "nonconforming429", "unparseable", "quota", "failure"} }

QuotaMessage == "Heavy server load, please retry in an hour"
InvalidResponseMessage == "AI returned invalid response. Please try again."

\* what the try block of suggestFix throws on a reply: generateContent fails,
\* JSON.parse throws a SyntaxError, FixSuggestionSchema.parse throws a
\* ZodError whose message lists the issues
ThrownOn(reply) ==
    CASE reply.kind = "quota" ->
            [class |-> "Error", message |-> "[429 Too Many Requests] Resource exhausted"]
      [] reply.kind = "failure" ->
            [class |-> "Error", message |-> "fetch failed"]
      [] reply.kind = "unparseable" ->
            [class |-> "SyntaxError", message |-> "Unexpected token S in JSON at position 0"]
      [] reply.kind = "nonconforming429" ->
            [class |-> "ZodError",
             message |-> "Invalid enum value. Expected 'high' | 'medium' | 'low', received '429'"]
      [] OTHER ->
            [class |-> "ZodError", message |-> "fixed_code: Required"]

\* the catch block of suggestFix: the message of the Error it throws
SuggestFixCatch(error) ==
    IF \/ Includes(error.message, "429")
       \/ Includes(error.message, "quota")
       \/ Includes(error.message, "rate limit")
    THEN QuotaMessage
    ELSE IF error.class = "ZodError"
    THEN InvalidResponseMessage
    ELSE "Failed to generate fix: " \o error.message

SuggestFix(reply) ==
    IF reply.kind = "json"
    THEN [threw |-> FALSE, message |-> Absent,
          is_malicious |-> reply.is_malicious, fixed_code |-> reply.fixed_code]
    ELSE [threw |-> TRUE, message |-> SuggestFixCatch(ThrownOn(reply)),
          is_malicious |-> FALSE, fixed_code |-> EmptyCode]

NoFix == [threw |-> FALSE, message |-> Absent, is_malicious |-> FALSE, fixed_code |-> Absent]

(***************************************************************************)
(* POST /api/debug: the responses and the branches                         *)
(***************************************************************************)
NoRateLimit == [present |-> FALSE, limit |-> 0, remaining |-> 0, resetAt |-> 0]

RateLimitOf(res) ==
    [present |-> TRUE, limit |-> res.limit, remaining |-> res.remaining, resetAt |-> res.resetAt]

NoResponse ==
    [status |-> 0, success |-> FALSE, originalCode |-> Absent, fixedCode |-> Absent,
     executionOutput |-> Absent, error |-> Absent, rateLimit |-> NoRateLimit]

RespParseError ==
    [NoResponse EXCEPT !.status = 400, !.originalCode = EmptyCode,
                       !.error = "Request body must contain a code field"]

\* a rate-limit rejection without the rateLimit fields
RespRateLimitedBare(code, res) ==
    [NoResponse EXCEPT !.status = 429, !.originalCode = code, !.error = "Rate limit exceeded"]

RespRateLimited(code, res) ==
    [NoResponse EXCEPT !.status = 429, !.originalCode = code,
                       !.error = "Rate limit exceeded", !.rateLimit = RateLimitOf(res)]

\* a validation failure answered with status 200
RespInvalidOk(code, res) ==
    [NoResponse EXCEPT !.status = 200, !.originalCode = code,
                       !.error = "Code validation failed", !.rateLimit = RateLimitOf(res)]

RespInvalid(code, res) ==
    [NoResponse EXCEPT !.status = 400, !.originalCode = code,
                       !.error = "Code validation failed", !.rateLimit = RateLimitOf(res)]

RespOriginalWorks(code, ex, res) ==
    [NoResponse EXCEPT !.status = 200, !.success = TRUE, !.originalCode = code,
                       !.executionOutput = ex.stdout, !.rateLimit = RateLimitOf(res)]

\* a rejection that returns the rejected code
RespMaliciousWithCode(code, fix, res) ==
    [NoResponse EXCEPT !.status = 400, !.originalCode = code, !.fixedCode = fix.fixed_code,
                       !.error = "Code appears to be malicious", !.rateLimit = RateLimitOf(res)]

\* both malicious returns (Generate Fix and Retry Fix) build this response
RespMalicious(code, fix, res) ==
    [NoResponse EXCEPT !.status = 400, !.originalCode = code,
                       !.error = "Code appears to be malicious", !.rateLimit = RateLimitOf(res)]

\* both returns after a fix that runs (Execute Fixed Code and Execute Retry
\* Fix) build this response
RespFixed(code, fix, ex, res) ==
    [NoResponse EXCEPT !.status = 200, !.success = TRUE, !.originalCode = code,
                       !.fixedCode = fix.fixed_code, !.executionOutput = ex.stdout,
                       !.rateLimit = RateLimitOf(res)]

\* a final return that reports success
RespBothFailedAsSuccess(code, fix, res) ==
    [NoResponse EXCEPT !.status = 200, !.success = TRUE, !.originalCode = code,
                       !.fixedCode = fix.fixed_code,
                       !.error = "Unable to fix code after 2 attempts",
                       !.rateLimit = RateLimitOf(res)]

RespBothFailed(code, fix, res) ==
    [NoResponse EXCEPT !.status = 200, !.originalCode = code, !.fixedCode = fix.fixed_code,
                       !.error = "Unable to fix code after 2 attempts",
                       !.rateLimit = RateLimitOf(res)]

\* the catch block answers as if the request had gone well
RespInternalErrorOk(code) ==
    [NoResponse EXCEPT !.status = 200, !.success = TRUE, !.originalCode = code]

RespInternalError(code) ==
    [NoResponse EXCEPT !.status = 500, !.originalCode = code, !.error = "Internal error"]

\* the checks continue after a rejection
AfterRateLimitIgnored(r) == "Validate"

\* where POST goes after checkRateLimitOrThrow
AfterRateLimit(r) == IF r.threw THEN "done" ELSE "Validate"

\* the submitted code is never run
AfterValidateSkipsOriginal(san) == IF san.isValid THEN "GenerateFix" ELSE "done"

\* where POST goes after sanitizeCode
AfterValidate(san) == IF san.isValid THEN "ExecuteOriginal" ELSE "done"

\* the return after a successful run is missing
AfterExecuteOriginalFallsThrough(ex) == "GenerateFix"

\* where POST goes after executing the original code
AfterExecuteOriginal(ex) == IF ex.success THEN "done" ELSE "GenerateFix"

\* the verdict is not looked at
AfterSuggestFixIgnoresVerdict(fix, next) == IF fix.threw THEN "done" ELSE next

\* where POST goes after suggestFix returned: next unless the code is malicious
AfterSuggestFix(fix, next) == IF fix.threw \/ fix.is_malicious THEN "done" ELSE next

\* the failed fix sends the pipeline back to the first advisor call
AfterExecuteFixedStartsOver(ex) == IF ex.success THEN "done" ELSE "GenerateFix"

\* no retry
AfterExecuteFixedGivesUp(ex) == "done"

\* where POST goes after executing the first fix
AfterExecuteFixed(ex) == IF ex.success THEN "done" ELSE "RetryFix"

\* the retry starts again from the submitted code
RetryInputOriginal(code, fix) == code

\* the code the retry is asked to fix: suggestFix(fixSuggestion.fixed_code)
RetryInput(code, fix) == fix.fixed_code

\* addStep
AddStep(log, step, status, t) == Append(log, [step |-> step, status |-> status, timestamp |-> t])


(***************************************************************************)
(* Text: a string is handled character by character                        *)
(***************************************************************************)
\* the whitespace that trim() and \s take away
IsSpace(c) == c \in {" ", "\n", "\t"}

\* s.trim()
RECURSIVE TrimStart(_)
TrimStart(s) ==
    IF s = "" THEN ""
    ELSE IF IsSpace(Head(s)) THEN TrimStart(Tail(s)) ELSE s

RECURSIVE TrimEnd(_)
TrimEnd(s) ==
    IF s = "" THEN ""
    ELSE IF IsSpace(SubSeq(s, Len(s), Len(s))) THEN TrimEnd(SubSeq(s, 1, Len(s) - 1)) ELSE s

Trim(s) == TrimEnd(TrimStart(s))

UpperCase == "ABCDEFGHIJKLMNOPQRSTUVWXYZ"
LowerCase == "abcdefghijklmnopqrstuvwxyz"

\* the lower-case letter of each upper-case letter
LowerOf ==
    [c \in { SubSeq(UpperCase, i, i) : i \in 1 .. Len(UpperCase) } |->
        LET i == CHOOSE i \in 1 .. Len(UpperCase) : SubSeq(UpperCase, i, i) = c
        IN  SubSeq(LowerCase, i, i)]

\* the character compared without regard to case (the i flag)
LowerChar(c) == IF c \in DOMAIN LowerOf THEN LowerOf[c] ELSE c

RECURSIVE ToLower(_)
ToLower(s) == IF s = "" THEN "" ELSE LowerChar(Head(s)) \o ToLower(Tail(s))

\* the first position from 'from' on at which text occurs in s, 0 if none
RECURSIVE FirstIndex(_, _, _)
FirstIndex(s, text, from) ==
    IF from > Len(s) THEN 0
    ELSE IF OccursAt(s, from, text) THEN from ELSE FirstIndex(s, text, from + 1)

\* the position after the whitespace that begins at i (\s*)
RECURSIVE SkipSpaces(_, _)
SkipSpaces(s, i) ==
    IF i <= Len(s) /\ IsSpace(SubSeq(s, i, i)) THEN SkipSpaces(s, i + 1) ELSE i

(***************************************************************************)
(* POST /api/debug-stream: the advisor stream, the candidate fix and the   *)
(* guard rail                                                              *)
(***************************************************************************)
\* the fence marker: three backticks.  A string of the model writes the
\* backtick as ~
Fence == "~~~"

\* what the provider streams: the texts of its chunks, and whether the stream
\* then fails (with a quota error or another one) instead of ending
ProviderStreams ==
    { [chunks |-> c, fails |-> None] :
        c \in { <<"Fix it.\n", "~~~javascript\n", "ok()\n", "~~~">>,
                <<"No idea.">>,
                <<"Hm. ", "~~~\n", "~~~">>,
                <<"Same.", "", "~~~javascript\nprog\n~~~">>,
                <<"Try ", "~~~javascript\neval (x)", "\n~~~">>,
                <<"~~~\nnew Function('a')\n~~~">>,
                <<"~~~\na.constructor . constructor\n~~~">>,
                <<"~~~javascript\no.__proto__\n~~~">>,
                <<"~~~\nrequire('fs')\n~~~">>,
                <<"~~~\nimport fs\n~~~">>,
                <<"~~~\nimport('fs')\n~~~">>,
                <<"Fix.~", "~~javascript\nok2()\n~~", "~ done">>,
                <<"~~~js\nok()\n~~~\n", "more~~~">> } }
    \cup { [chunks |-> <<"Wait">>, fails |-> "quota"],
           [chunks |-> <<>>, fails |-> "other"] }

\* what suggestFixStream yields for a provider stream: the non-empty chunk
\* texts, then the text of the catch block when the stream fails
SuggestFixStream(ps) ==
    SelectSeq(ps.chunks, LAMBDA text : text # "")
    \o (CASE ps.fails = "quota" -> <<QuotaMessage>>
          [] ps.fails = "other" -> <<"Error: provider failed">>
          [] OTHER -> <<>>)

\* where the content of a code block that opens at i begins, 0 if no block
\* opens there: the fence, (?:javascript)?, \n
ContentStart(text, i) ==
    IF ~OccursAt(text, i, Fence) THEN 0
    ELSE IF OccursAt(text, i + 3, "javascript\n") THEN i + 14
    ELSE IF OccursAt(text, i + 3, "\n") THEN i + 4
    ELSE 0

\* the content of the leftmost code block that opens at i or later, "" when
\* there is none: a block opens where ContentStart is positive and a fence
\* follows, and its content ends before the nearest fence ([\s\S]*?)
RECURSIVE MatchFrom(_, _)
MatchFrom(text, i) ==
    IF i > Len(text) THEN ""
    ELSE IF /\ ContentStart(text, i) > 0
            /\ FirstIndex(text, Fence, ContentStart(text, i)) > 0
    THEN SubSeq(text, ContentStart(text, i), FirstIndex(text, Fence, ContentStart(text, i)) - 1)
    ELSE MatchFrom(text, i + 1)

\* fullReasoning.match(/fence(?:javascript)?\n([\s\S]*?)fence/) and trim(): the
\* content of the leftmost match, "" when nothing matches
ExtractFixedCode(text) ==
    CHOOSE code \in { Trim(match) : match \in {MatchFrom(text, 1)} } : TRUE

\* /word\s*\(/i, low being the code in lower case
MatchesCall(code, low, word) ==
    \E i \in 1 .. Len(code) :
        /\ OccursAt(low, i, word)
        /\ OccursAt(code, SkipSpaces(code, i + Len(word)), "(")

\* /constructor\s*\.\s*constructor/i
MatchesConstructorChain(code, low) ==
    \E i \in 1 .. Len(code) :
        /\ OccursAt(low, i, "constructor")
        /\ LET dot == SkipSpaces(code, i + 11)
           IN  /\ OccursAt(code, dot, ".")
               /\ OccursAt(low, SkipSpaces(code, dot + 1), "constructor")

\* /import\s+/i
MatchesImport(code, low) ==
    \E i \in 1 .. Len(code) :
        /\ OccursAt(low, i, "import")
        /\ i + 6 <= Len(code)
        /\ IsSpace(SubSeq(code, i + 6, i + 6))

\* a route without the guard rail
NoGuardRail(code) == FALSE

\* maliciousPatterns.some(pattern => pattern.test(fixedCode))
HasMaliciousPattern(code) ==
    \E low \in {ToLower(code)} :
        \/ MatchesCall(code, low, "eval")
        \/ MatchesCall(code, low, "function")
        \/ MatchesConstructorChain(code, low)
        \/ Includes(low, "__proto__")
        \/ MatchesCall(code, low, "require")
        \/ MatchesImport(code, low)

\* an event of the stream: data: {type, ...}.  text is the event's message,
\* text, stdout, code or fullText; success is read of complete events only
Event(type, text) == [type |-> type, text |-> text, success |-> FALSE]

Complete(success, text) == [type |-> "complete", text |-> text, success |-> success]

\* const errorMsg = originalExecution.timedOut ? ... : originalExecution.error || 'Unknown error'
ErrorMsg(ex) ==
    IF ex.timedOut = "true" THEN "Execution timed out"
    ELSE IF ex.error \in {NoError, ""} THEN "Unknown error" ELSE ex.error

\* the output of the run is not sent
OriginalWorksEventsNoOutput(ex) ==
    << Event("step", "Code executed successfully!"), Complete(TRUE, "") >>

\* the events after the original code ran
OriginalWorksEvents(ex) ==
    << Event("step", "Code executed successfully!"), Event("output", ex.stdout),
       Complete(TRUE, "") >>

\* the events after the advisor stream ended without a usable candidate
NoCandidateEvents ==
    << Complete(FALSE, "Could not extract fixed code from AI response") >>

\* the events of the guard rail's rejection
UnsafeEvents(code) ==
    << Event("error", "AI generated code contains potentially unsafe patterns. Please review the code manually."),
       Event("fixed-code", code), Complete(FALSE, "") >>

\* the events after the candidate ran
FixWorksEvents(ex, code) ==
    << Event("step", "Fixed code works!"), Event("output", ex.stdout),
       Event("fixed-code", code), Complete(TRUE, "") >>

\* complete is sent before the details
FixFailsEventsCompleteFirst(ex, code) ==
    << Complete(FALSE, ""), Event("step", "Fixed code still has issues"),
       Event("error", ex.error), Event("fixed-code", code) >>

\* the events after the candidate failed
FixFailsEvents(ex, code) ==
    << Event("step", "Fixed code still has issues"), Event("error", ex.error),
       Event("fixed-code", code), Complete(FALSE, "") >>

\* fullReasoning = chunk
AccumulateLast(full, chunk) == chunk

\* fullReasoning += chunk
Accumulate(full, chunk) == full \o chunk

\* the candidate is run again
AfterCandidateRunAgain(ex) == IF ex.success THEN "closed" ELSE "execFixed"

\* where the route goes after the candidate ran: controller.close()
AfterCandidateRun(ex) == "closed"


VARIABLES
    now,        \* Date.now(), milliseconds
    ticks,      \* clock advances so far
    store,      \* the counter store: key -> record
    failures,   \* store operations that have failed so far
    rl,         \* SpecRL: the checkRateLimit calls in flight: slot -> position and locals
    rlHist,     \* SpecRL: per key, the calls of its current window (history)
    rlRet,      \* SpecRL: the call that returned last, with its result (history)
    req,        \* Spec: requests begun so far
    body,       \* Spec: what request.json() gave the request: throws, invalid or code (history)
    pc,         \* Spec: where POST is in the request it handles
    clientIP,   \* Spec: getClientIP(request)
    steps,      \* Spec: the step log of the request
    originalCode,     \* Spec: POST's local originalCode
    rateLimitResult,  \* Spec: the result checkRateLimit returned to the request
    rlFailedAt,       \* Spec: the store operation that failed in the request's check (history)
    fixSuggestion,    \* Spec: POST's local fixSuggestion
    retryFix,         \* Spec: POST's local retryFix
    execs,            \* Spec: the executeCode calls of the request, in order (history)
    advisorCalls,     \* Spec: the suggestFix calls of the request, in order (history)
    response,         \* Spec: the response returned (body fields and status)
    sbPc,             \* SpecSandbox: where executeCode is in the call it handles
    sbIsolate,        \* SpecSandbox: the isolate of the call: none, live or disposed
    sbOutputs,        \* SpecSandbox: executeJavaScript's local outputs
    sbEnded,          \* SpecSandbox: how the call ended (history)
    sbResult,         \* SpecSandbox: the ExecutionResult the call returned
    stReq,            \* SpecStream: streaming requests begun so far
    stPc,             \* SpecStream: the await at which start(controller) stands
    stIP,             \* SpecStream: getClientIP(request)
    stCode,           \* SpecStream: the route's local code
    events,           \* SpecStream: the events enqueued on the controller, in order
    fullReasoning,    \* SpecStream: the route's local fullReasoning
    stYields,         \* SpecStream: what suggestFixStream has yet to yield
    stFixedCode,      \* SpecStream: the route's local fixedCode
    stExecs,          \* SpecStream: the executeCode calls of the request (history)
    stStreams,        \* SpecStream: the suggestFixStream calls of the request (history)
    stProvider,       \* SpecStream: how the provider's stream of the request fails, None if it ends (history)
    connection,       \* SpecStream: the caller's connection: open or closed
    stAfterClose,     \* SpecStream: what the request did after the connection closed (history)
    reasoning,        \* SpecClient: state.reasoning of useDebugStream
    clPc,             \* SpecClient: where startDebug is: idle, streaming or done
    clRest,           \* SpecClient: the provider text that has yet to arrive
    clSeen,           \* SpecClient: the provider text of the chunks handled so far (history)
    call,             \* SpecCalls: the last call of a function: its name, input and output
    hook              \* SpecHook: startDebug of useDebugStream: its position, the response
                      \* yet to be read and the hook's state

rlVars == <<rl, rlHist, rlRet>>
pipeVars == <<req, body, pc, clientIP, steps, originalCode, rateLimitResult, rlFailedAt,
              fixSuggestion, retryFix, execs, advisorCalls, response>>
sbVars == <<sbPc, sbIsolate, sbOutputs, sbEnded, sbResult>>
\* the state of the components checked on their own
stVars == <<stReq, stPc, stIP, stCode, events, fullReasoning, stYields, stFixedCode,
            stExecs, stStreams, stProvider, connection, stAfterClose>>
clVars == <<reasoning, clPc, clRest, clSeen>>
otherVars == <<sbVars, stVars, clVars, call, hook>>
\* what the buffered pipeline leaves alone, besides the clock and the store
notPipeline == <<rlVars, otherVars>>
\* what a checkRateLimit call on its own leaves alone
notRateLimiter == <<pipeVars, otherVars>>
vars == <<now, ticks, store, failures, rlVars, pipeVars, sbVars, stVars, clVars, call, hook>>

Slots == 1 .. MaxInFlight

\* after the close: advisor chunks read, executeCode calls that ran on to
\* their end
NothingAfterClose == [reads |-> 0, execsEnded |-> 0]

\* useState: the state of the hook before any request
InitialState ==
    [steps |-> <<>>, reasoning |-> "", isStreaming |-> FALSE, output |-> "null",
     fixedCode |-> "null", error |-> "null", success |-> "null"]

\* startDebug has not been called
IdleHook ==
    [pc |-> "idle", sent |-> <<>>, wire |-> <<>>, cuts |-> 0, state |-> InitialState,
     failed |-> FALSE]

\* no function has been called yet
NoCall == [fn |-> None, input |-> None, output |-> None]

\* a call: its position, its key, the count kv.incr returned, the window it
\* incremented in
IdleCall == [pc |-> "idle", key |-> <<>>, count |-> 0, start |-> NoExpiry]

NoReturn ==
    [valid |-> FALSE, key |-> <<>>, count |-> 0, start |-> NoExpiry, at |-> 0,
     failed |-> None, result |-> NoResult]

\* the calls that incremented key in the window that began at start: how many
\* there are, how many returned, how many were allowed, how many hit a store
\* failure, and whether two of them were in flight together
NoHist ==
    [start |-> NoExpiry, started |-> 0, returned |-> 0, allowed |-> 0,
     failed |-> 0, overlap |-> FALSE]

InFlight(c) == rl[c].pc \in {"expire", "ttl"}

InitStore == [k \in Keys |-> AbsentRec]

InitRL ==
    /\ now = 0
    /\ ticks = 0
    /\ store = InitStore
    /\ failures = 0
    /\ rl = [c \in Slots |-> IdleCall]
    /\ rlHist = [total |-> 0, byKey |-> [k \in Keys |-> NoHist]]
    /\ rlRet = NoReturn
    /\ req = 0
    /\ body = None
    /\ pc = "idle"
    /\ clientIP = <<>>
    /\ steps = <<>>
    /\ originalCode = EmptyCode
    /\ rateLimitResult = NoResult
    /\ rlFailedAt = None
    /\ fixSuggestion = NoFix
    /\ retryFix = NoFix
    /\ execs = <<>>
    /\ advisorCalls = <<>>
    /\ response = NoResponse
    /\ sbPc = "idle"
    /\ sbIsolate = "none"
    /\ sbOutputs = <<>>
    /\ sbEnded = None
    /\ sbResult = Raised
    /\ stReq = 0
    /\ stPc = "idle"
    /\ stIP = <<>>
    /\ stCode = EmptyCode
    /\ events = <<>>
    /\ fullReasoning = ""
    /\ stYields = <<>>
    /\ stFixedCode = ""
    /\ stExecs = <<>>
    /\ stStreams = 0
    /\ stProvider = None
    /\ connection = "open"
    /\ stAfterClose = NothingAfterClose
    /\ reasoning = ""
    /\ clPc = "idle"
    /\ clRest = ""
    /\ clSeen = ""
    /\ call = NoCall
    /\ hook = IdleHook

\* the environment may act once more
EnvBudget == ticks + failures < MaxEnvEvents

\* the clock advances to the next instant; POST handles a request within one
\* instant
Tick ==
    /\ EnvBudget
    /\ pc \in {"idle", "done"}
    /\ now' = Instant(ticks + 1)
    /\ ticks' = ticks + 1
    /\ UNCHANGED <<store, failures, rlVars, pipeVars, otherVars>>

\* the history of a key after a call incremented it in the window of start
HistStarted(h, start, overlap) ==
    IF h.start = start
    THEN [h EXCEPT !.started = @ + 1, !.overlap = @ \/ overlap]
    ELSE [NoHist EXCEPT !.start = start, !.started = 1]

\* the history of a key after a call of the window of start returned res
HistReturned(h, start, res, failed) ==
    IF h.start # start THEN h
    ELSE [h EXCEPT !.returned = @ + 1,
                   !.allowed = @ + (IF res.allowed THEN 1 ELSE 0),
                   !.failed = @ + (IF failed = None THEN 0 ELSE 1)]

\* a new call may begin in slot c
MayBegin(c) ==
    /\ rl[c].pc = "idle"
    /\ rlHist.total < NumCalls
    /\ \A d \in Slots : d < c => rl[d].pc # "idle"

\* checkRateLimit(ip) up to the reply of kv.incr
RlIncr(c, ip) ==
    /\ MayBegin(c)
    /\ LET key == KeyOf(ip)
           s2  == KvIncr(store, key, now)
           count == s2[key].count
       IN /\ store' = s2
          /\ rl' = [rl EXCEPT ![c] =
                 [pc |-> IF FirstIncrement(count) THEN "expire" ELSE "ttl",
                  key |-> key, count |-> count, start |-> s2[key].start]]
          /\ rlHist' = [total |-> rlHist.total + 1,
                        byKey |-> [rlHist.byKey EXCEPT ![key] =
                            HistStarted(@, s2[key].start,
                                \E d \in Slots : d # c /\ InFlight(d) /\ rl[d].key = key)]]
    /\ UNCHANGED <<now, ticks, failures, rlRet, notRateLimiter>>

\* if (count === 1) await kv.expire(key, RATE_LIMIT_WINDOW_SECONDS)
RlExpire(c) ==
    /\ rl[c].pc = "expire"
    /\ store' = KvExpire(store, rl[c].key, RATE_LIMIT_WINDOW_SECONDS, now)
    /\ rl' = [rl EXCEPT ![c].pc = "ttl"]
    /\ UNCHANGED <<now, ticks, failures, rlHist, rlRet, notRateLimiter>>

\* the call in slot c returns res
RlReturns(c, res, failed) ==
    /\ rlRet' = [valid |-> TRUE, key |-> rl[c].key, count |-> rl[c].count,
                 start |-> rl[c].start, at |-> now, failed |-> failed, result |-> res]
    /\ rlHist' = [rlHist EXCEPT !.byKey[rl[c].key] = HistReturned(@, rl[c].start, res, failed)]
    /\ rl' = [rl EXCEPT ![c] = IdleCall]

\* const ttl = await kv.ttl(key), and the rest of the try block: Date.now()
\* and the returned result
RlTtl(c) ==
    /\ rl[c].pc = "ttl"
    /\ \E t \in KvTtlReplies(store, rl[c].key, now) :
          RlReturns(c, RateLimitResult(rl[c].count, t, now), None)
    /\ UNCHANGED <<now, ticks, store, failures, notRateLimiter>>

\* kv.expire or kv.ttl throws (the store is unreachable): the catch block
RlStoreFails(c) ==
    /\ EnvBudget
    /\ rl[c].pc \in {"expire", "ttl"}
    /\ failures' = failures + 1
    /\ RlReturns(c, FailOpenResult(now), rl[c].pc)
    /\ UNCHANGED <<now, ticks, store, notRateLimiter>>

\* kv.incr throws before the store is touched: the catch block
RlIncrFails(c, ip) ==
    /\ EnvBudget
    /\ MayBegin(c)
    /\ failures' = failures + 1
    /\ rlRet' = [NoReturn EXCEPT !.valid = TRUE, !.key = KeyOf(ip), !.at = now, !.failed = "incr",
                                 !.result = FailOpenResult(now)]
    /\ rlHist' = [rlHist EXCEPT !.total = @ + 1, !.byKey[KeyOf(ip)].failed = @ + 1]
    /\ UNCHANGED <<now, ticks, store, rl, notRateLimiter>>

NextRL ==
    \/ Tick
    \/ \E c \in Slots, ip \in IPs : RlIncr(c, ip)
    \/ \E c \in Slots : RlExpire(c)
    \/ \E c \in Slots : RlTtl(c)
    \/ \E c \in Slots : RlStoreFails(c)
    \/ \E c \in Slots, ip \in IPs : RlIncrFails(c, ip)

SpecRL == InitRL /\ [][NextRL]_vars

(***************************************************************************)
(* Spec: POST /api/debug, one request after another                        *)
(***************************************************************************)
\* what request.json() gives: it throws (or the body has no properties), the
\* code field is missing, empty or no string, or it is a non-empty string
Bodies ==
    { [kind |-> "throws", code |-> Absent], [kind |-> "invalid", code |-> Absent] }
    \cup { [kind |-> "code", code |-> c] : c \in UserCodes }

Init == InitRL

\* the catch block of POST: the Error step and the 500 response
Caught(log) ==
    /\ steps' = AddStep(log, "Error", "error", now)
    /\ response' = RespInternalError(originalCode')
    /\ pc' = "done"

\* the catch block of POST after a step that leaves originalCode as it is
CaughtAfter(log) ==
    /\ steps' = AddStep(log, "Error", "error", now)
    /\ response' = RespInternalError(originalCode)
    /\ pc' = "done"

\* Step 1: a request arrives and its body is parsed
ParseRequest(b, ip) ==
    /\ pc \in {"idle", "done"}
    /\ req < MaxRequests
    /\ req' = req + 1
    /\ body' = b.kind
    /\ clientIP' = ip
    /\ rateLimitResult' = NoResult
    /\ rlFailedAt' = None
    /\ fixSuggestion' = NoFix
    /\ retryFix' = NoFix
    /\ execs' = <<>>
    /\ advisorCalls' = <<>>
    /\ LET log == AddStep(<<>>, "Parse Request", "pending", now) IN
       CASE b.kind = "throws" ->
                /\ originalCode' = EmptyCode
                /\ Caught(log)
         [] b.kind = "invalid" ->
                /\ originalCode' = EmptyCode
                /\ steps' = AddStep(log, "Parse Request", "error", now)
                /\ response' = RespParseError
                /\ pc' = "done"
         [] OTHER ->
                /\ originalCode' = b.code
                /\ steps' = AddStep(log, "Parse Request", "success", now)
                /\ response' = NoResponse
                /\ pc' = "RateLimit"
    /\ UNCHANGED <<now, ticks, store, failures, notPipeline>>

\* Step 2: checkRateLimitOrThrow(clientIP); the store operation failAt throws
RateLimitCheck(failAt) ==
    /\ pc = "RateLimit"
    /\ failAt # None => EnvBudget
    /\ failAt = "expire" => Current(store, KeyOf(clientIP), now).count = 0
    /\ \E out \in CheckRateLimit(store, clientIP, now, failAt) :
        LET r == CheckRateLimitOrThrow(out.result)
            log == AddStep(steps, "Rate Limit Check", "pending", now)
        IN  /\ store' = out.store
            /\ rateLimitResult' = r.result
            /\ steps' = AddStep(log, "Rate Limit Check", IF r.threw THEN "error" ELSE "success", now)
            /\ response' = IF r.threw THEN RespRateLimited(originalCode, r.result) ELSE response
            /\ pc' = AfterRateLimit(r)
    /\ rlFailedAt' = failAt
    /\ failures' = IF failAt = None THEN failures ELSE failures + 1
    /\ UNCHANGED <<now, ticks, notPipeline, req, body, clientIP, originalCode, fixSuggestion, retryFix,
                   execs, advisorCalls>>

\* Step 3: sanitizeCode(originalCode)
ValidateCode ==
    /\ pc = "Validate"
    /\ LET san == SanitizeCode(Shape(originalCode))
           log == AddStep(steps, "Validate Code Size", "pending", now)
       IN  /\ steps' = AddStep(log, "Validate Code Size", IF san.isValid THEN "success" ELSE "error", now)
           /\ response' = IF san.isValid THEN response ELSE RespInvalid(originalCode, rateLimitResult)
           /\ pc' = AfterValidate(san)
    /\ UNCHANGED <<now, ticks, store, failures, notPipeline, req, body, clientIP, originalCode,
                   rateLimitResult, rlFailedAt, fixSuggestion, retryFix, execs, advisorCalls>>

\* Step 4: executeCode(originalCode)
ExecuteOriginal(run) ==
    /\ pc = "ExecuteOriginal"
    /\ LET ex == ExecuteCode(originalCode, run)
           log == AddStep(steps, "Execute Original Code", "pending", now)
       IN  /\ execs' = Append(execs, [stage |-> "Execute Original Code", code |-> originalCode,
                                      success |-> ex.success, raised |-> ex.raised])
           /\ IF ex.raised
              THEN CaughtAfter(log)
              ELSE /\ steps' = AddStep(log, "Execute Original Code",
                                       IF ex.success THEN "success" ELSE "error", now)
                   /\ response' = IF ex.success
                                  THEN RespOriginalWorks(originalCode, ex, rateLimitResult)
                                  ELSE response
                   /\ pc' = AfterExecuteOriginal(ex)
    /\ UNCHANGED <<now, ticks, store, failures, notPipeline, req, body, clientIP, originalCode,
                   rateLimitResult, rlFailedAt, fixSuggestion, retryFix, advisorCalls>>

\* Step 5: suggestFix(originalCode)
GenerateFix(reply) ==
    /\ pc = "GenerateFix"
    /\ LET fix == SuggestFix(reply)
           log == AddStep(steps, "Generate Fix", "pending", now)
       IN  /\ advisorCalls' = Append(advisorCalls, [stage |-> "Generate Fix", input |-> originalCode,
                                                   reply |-> reply.kind, result |-> fix])
           /\ IF fix.threw
              THEN /\ UNCHANGED <<fixSuggestion, originalCode>>
                   /\ Caught(log)
              ELSE /\ fixSuggestion' = fix
                   /\ steps' = AddStep(log, "Generate Fix", IF fix.is_malicious THEN "error" ELSE "success", now)
                   /\ response' = IF fix.is_malicious
                                  THEN RespMalicious(originalCode, fix, rateLimitResult)
                                  ELSE response
                   /\ pc' = AfterSuggestFix(fix, "ExecuteFixed")
                   /\ UNCHANGED originalCode
    /\ UNCHANGED <<now, ticks, store, failures, notPipeline, req, body, clientIP,
                   rateLimitResult, rlFailedAt, retryFix, execs>>

\* Step 6: executeCode(fixSuggestion.fixed_code)
ExecuteFixed(run) ==
    /\ pc = "ExecuteFixed"
    /\ LET ex == ExecuteCode(fixSuggestion.fixed_code, run)
           log == AddStep(steps, "Execute Fixed Code", "pending", now)
       IN  /\ execs' = Append(execs, [stage |-> "Execute Fixed Code", code |-> fixSuggestion.fixed_code,
                                      success |-> ex.success, raised |-> ex.raised])
           /\ IF ex.raised
              THEN CaughtAfter(log)
              ELSE /\ steps' = AddStep(log, "Execute Fixed Code",
                                       IF ex.success THEN "success" ELSE "error", now)
                   /\ response' = IF ex.success
                                  THEN RespFixed(originalCode, fixSuggestion, ex, rateLimitResult)
                                  ELSE response
                   /\ pc' = AfterExecuteFixed(ex)
    /\ UNCHANGED <<now, ticks, store, failures, notPipeline, req, body, clientIP, originalCode,
                   rateLimitResult, rlFailedAt, fixSuggestion, retryFix, advisorCalls>>

\* Step 7: suggestFix(fixSuggestion.fixed_code)
RetryFix(reply) ==
    /\ pc = "RetryFix"
    /\ LET fix == SuggestFix(reply)
           log == AddStep(steps, "Retry Fix", "pending", now)
       IN  /\ advisorCalls' = Append(advisorCalls,
                    [stage |-> "Retry Fix", input |-> RetryInput(originalCode, fixSuggestion),
                     reply |-> reply.kind, result |-> fix])
           /\ IF fix.threw
              THEN /\ UNCHANGED <<retryFix, originalCode>>
                   /\ Caught(log)
              ELSE /\ retryFix' = fix
                   /\ steps' = AddStep(log, "Retry Fix", IF fix.is_malicious THEN "error" ELSE "success", now)
                   /\ response' = IF fix.is_malicious
                                  THEN RespMalicious(originalCode, fix, rateLimitResult)
                                  ELSE response
                   /\ pc' = AfterSuggestFix(fix, "ExecuteRetry")
                   /\ UNCHANGED originalCode
    /\ UNCHANGED <<now, ticks, store, failures, notPipeline, req, body, clientIP,
                   rateLimitResult, rlFailedAt, fixSuggestion, execs>>

\* Step 8: executeCode(retryFix.fixed_code) and the final return
ExecuteRetry(run) ==
    /\ pc = "ExecuteRetry"
    /\ LET ex == ExecuteCode(retryFix.fixed_code, run)
           log == AddStep(steps, "Execute Retry Fix", "pending", now)
       IN  /\ execs' = Append(execs, [stage |-> "Execute Retry Fix", code |-> retryFix.fixed_code,
                                      success |-> ex.success, raised |-> ex.raised])
           /\ IF ex.raised
              THEN CaughtAfter(log)
              ELSE /\ steps' = AddStep(log, "Execute Retry Fix",
                                       IF ex.success THEN "success" ELSE "error", now)
                   /\ response' = IF ex.success
                                  THEN RespFixed(originalCode, retryFix, ex, rateLimitResult)
                                  ELSE RespBothFailed(originalCode, retryFix, rateLimitResult)
                   /\ pc' = "done"
    /\ UNCHANGED <<now, ticks, store, failures, notPipeline, req, body, clientIP, originalCode,
                   rateLimitResult, rlFailedAt, fixSuggestion, retryFix, advisorCalls>>

Next ==
    \/ Tick
    \/ \E b \in Bodies, ip \in IPs : ParseRequest(b, ip)
    \/ \E failAt \in {None, "incr", "expire", "ttl"} : RateLimitCheck(failAt)
    \/ ValidateCode
    \/ \E run \in Runs : ExecuteOriginal(run)
    \/ \E reply \in ProviderReplies : GenerateFix(reply)
    \/ \E run \in Runs : ExecuteFixed(run)
    \/ \E reply \in ProviderReplies : RetryFix(reply)
    \/ \E run \in Runs : ExecuteRetry(run)

Spec == Init /\ [][Next]_vars

(***************************************************************************)
(* SpecSandbox: executeCode, one call after another, step by step          *)
(***************************************************************************)
\* the codes executeCode is called with
SandboxCodes == {"prog", "blank", EmptyCode}

\* the lines a program logs
Lines == {"out1", "out2"}

notSandbox == <<now, ticks, store, failures, rlVars, pipeVars, stVars, clVars, call, hook>>

\* the call returns result
SbReturns(result, ended) ==
    /\ sbPc' = IF result.raised THEN "raised" ELSE "returned"
    /\ sbResult' = result
    /\ sbEnded' = ended

\* executeCode(code): the empty-code return, or executeJavaScript begins
SbExecuteCode(code) ==
    /\ sbPc \in {"idle", "returned", "raised"}
    /\ sbIsolate' = "none"
    /\ sbOutputs' = <<>>
    /\ IF Shape(code).length = 0 \/ Shape(code).blank
       THEN SbReturns(EmptyCodeResult, "empty")
       ELSE /\ sbPc' = "create"
            /\ sbResult' = Raised
            /\ sbEnded' = None
    /\ UNCHANGED notSandbox

\* new ivm.Isolate({ memoryLimit: 16 }): the isolate exists, or the
\* constructor throws
SbNewIsolate(ok) ==
    /\ sbPc = "create"
    /\ IF ok
       THEN /\ sbIsolate' = "live"
            /\ sbPc' = "setup"
            /\ UNCHANGED <<sbResult, sbEnded>>
       ELSE /\ SbReturns(CatchBlock(IsolateError, sbOutputs), "create")
            /\ UNCHANGED sbIsolate
    /\ UNCHANGED <<sbOutputs, notSandbox>>

\* createContext, jail.set and the console set-up: they succeed or one throws
SbSetUp(ok) ==
    /\ sbPc = "setup"
    /\ IF ok
       THEN /\ sbPc' = "compile"
            /\ UNCHANGED <<sbResult, sbEnded>>
       ELSE SbReturns(CatchBlock(IsolateError, sbOutputs), "setup")
    /\ UNCHANGED <<sbIsolate, sbOutputs, notSandbox>>

\* isolate.compileScript(wrappedCode): a script, or a SyntaxError
SbCompile(ok) ==
    /\ sbPc = "compile"
    /\ IF ok
       THEN /\ sbPc' = "run"
            /\ UNCHANGED <<sbResult, sbEnded>>
       ELSE SbReturns(CatchBlock(CompileError, sbOutputs), "compile")
    /\ UNCHANGED <<sbIsolate, sbOutputs, notSandbox>>

\* the running program calls console.log: outputs.push(String(text))
SbLog(line) ==
    /\ sbPc = "run"
    /\ Len(sbOutputs) < MaxOutputs
    /\ sbOutputs' = Append(sbOutputs, line)
    /\ UNCHANGED <<sbPc, sbIsolate, sbEnded, sbResult, notSandbox>>

\* script.run resolves: isolate.dispose() and the return of the try block
SbRunCompletes ==
    /\ sbPc = "run"
    /\ sbIsolate' = "disposed"
    /\ SbReturns(Completed(sbOutputs), "completed")
    /\ UNCHANGED <<sbOutputs, notSandbox>>

\* script.run rejects with what the program threw: the catch block
SbRunThrows(error) ==
    /\ sbPc = "run"
    /\ SbReturns(CatchBlock(error, sbOutputs), "threw")
    /\ UNCHANGED <<sbIsolate, sbOutputs, notSandbox>>

\* the program is still running at the timeout: script.run stops it and
\* rejects with the timeout error: the catch block
SbRunTimesOut ==
    /\ sbPc = "run"
    /\ SbReturns(CatchBlock(TimeoutError, sbOutputs), "timeout")
    /\ UNCHANGED <<sbIsolate, sbOutputs, notSandbox>>

NextSandbox ==
    \/ \E code \in SandboxCodes : SbExecuteCode(code)
    \/ \E ok \in BOOLEAN : SbNewIsolate(ok)
    \/ \E ok \in BOOLEAN : SbSetUp(ok)
    \/ \E ok \in BOOLEAN : SbCompile(ok)
    \/ \E line \in Lines : SbLog(line)
    \/ SbRunCompletes
    \/ \E error \in ProgramThrows : SbRunThrows(error)
    \/ SbRunTimesOut

SpecSandbox == Init /\ [][NextSandbox]_vars

(***************************************************************************)
(* SpecStream: POST /api/debug-stream, one request after another.  An      *)
(* action is what start(controller) does from the end of one await to the  *)
(* next await.                                                             *)
(***************************************************************************)
notStream == <<now, ticks, rlVars, pipeVars, sbVars, clVars, call, hook>>

Closed == connection = "closed"

\* sendMessage for each of evs, then the route stands at next.  On a stream
\* the caller has cancelled controller.enqueue throws: the catch block's own
\* enqueue throws too and start(controller) ends without another event.
Emit(evs, next) ==
    IF Closed
    THEN /\ stPc' = "aborted"
         /\ UNCHANGED events
    ELSE /\ stPc' = next
         /\ events' = events \o evs

\* something threw: the catch block sends an error event and closes
Catch(message) == Emit(<< Event("error", message) >>, "closed")

\* what the request does after the connection closed
AfterClose(field) ==
    stAfterClose' = IF Closed THEN [stAfterClose EXCEPT ![field] = @ + 1] ELSE stAfterClose

\* a request arrives: the stream is created and start(controller) runs up to
\* await request.json()
StStart ==
    /\ stPc \in {"idle", "closed", "aborted"}
    /\ stReq < MaxStreamRequests
    /\ stReq' = stReq + 1
    /\ connection' = "open"
    /\ stPc' = "parse"
    /\ events' = << Event("step", "Parsing request...") >>
    /\ stIP' = <<>>
    /\ stCode' = EmptyCode
    /\ fullReasoning' = ""
    /\ stYields' = <<>>
    /\ stFixedCode' = ""
    /\ stExecs' = <<>>
    /\ stStreams' = 0
    /\ stProvider' = None
    /\ stAfterClose' = NothingAfterClose
    /\ UNCHANGED <<store, failures, notStream>>

\* request.json() is back: Steps 1 and 2 up to await checkRateLimitOrThrow
StParsed(b, ip) ==
    /\ stPc = "parse"
    /\ stIP' = ip
    /\ stCode' = IF b.kind = "code" THEN b.code ELSE EmptyCode
    /\ CASE b.kind = "throws"  -> Catch("Unexpected end of JSON input")
         [] b.kind = "invalid" ->
                Emit(<< Event("error", "Missing or invalid code field") >>, "closed")
         [] OTHER ->
                Emit(<< Event("step", "Checking rate limit...") >>, "rateLimit")
    /\ UNCHANGED <<store, failures, stReq, fullReasoning, stYields, stFixedCode, stExecs,
                   stStreams, connection, stAfterClose, stProvider, notStream>>

\* checkRateLimitOrThrow is back (the store operation failAt threw): Steps 2
\* and 3 up to await executeCode(code)
StRateLimitChecked(failAt) ==
    /\ stPc = "rateLimit"
    /\ failAt # None => EnvBudget
    /\ failAt = "expire" => Current(store, KeyOf(stIP), now).count = 0
    /\ \E out \in CheckRateLimit(store, stIP, now, failAt) :
        LET r   == CheckRateLimitOrThrow(out.result)
            san == SanitizeCode(Shape(stCode))
            ok  == << Event("step", "Rate limit OK (" \o ToString(r.result.remaining)
                                        \o " requests remaining)"),
                      Event("step", "Validating code size...") >>
        IN  /\ store' = out.store
            /\ IF r.threw
               THEN Emit(<< Event("error", "Rate limit exceeded. You can make "
                                    \o ToString(r.result.limit) \o " requests per hour.") >>,
                         "closed")
               ELSE IF ~san.isValid
               THEN Emit(ok \o << Event("error", "Code validation failed: " \o san.errors[1]) >>,
                         "closed")
               ELSE Emit(ok \o << Event("step", "Code size OK"),
                                  Event("step", "Executing original code...") >>,
                         "execOriginal")
    /\ failures' = IF failAt = None THEN failures ELSE failures + 1
    /\ UNCHANGED <<stReq, stIP, stCode, fullReasoning, stYields, stFixedCode, stExecs,
                   stStreams, connection, stAfterClose, stProvider, notStream>>

\* executeCode(code) is back: Steps 4 and 5 up to the first read of
\* suggestFixStream, which will yield what the provider stream ps makes it
StOriginalExecuted(run, ps) ==
    /\ stPc = "execOriginal"
    /\ LET ex == ExecuteCode(stCode, run) IN
       /\ stExecs' = Append(stExecs, [stage |-> "original", code |-> stCode,
                                      success |-> ex.success, raised |-> ex.raised])
       /\ stProvider' = IF ex.raised \/ ex.success \/ Closed THEN stProvider ELSE ps.fails
       /\ IF ex.raised
          THEN /\ Catch("Cannot read properties of null (reading 'message')")
               /\ UNCHANGED <<stYields, stStreams>>
          ELSE IF ex.success
          THEN /\ Emit(OriginalWorksEvents(ex), "closed")
               /\ UNCHANGED <<stYields, stStreams>>
          ELSE /\ Emit(<< Event("step", "Execution failed: " \o ErrorMsg(ex)),
                          Event("reasoning-start", "AI is analyzing your code...") >>,
                       "reasoning")
               /\ stYields' = IF Closed THEN stYields ELSE SuggestFixStream(ps)
               /\ stStreams' = IF Closed THEN stStreams ELSE stStreams + 1
    /\ AfterClose("execsEnded")
    /\ UNCHANGED <<store, failures, stReq, stIP, stCode, fullReasoning, stFixedCode,
                   connection, notStream>>

\* suggestFixStream yields a chunk: the body of the for await loop
StChunk ==
    /\ stPc = "reasoning"
    /\ stYields # <<>>
    /\ fullReasoning' = Accumulate(fullReasoning, Head(stYields))
    /\ stYields' = Tail(stYields)
    /\ Emit(<< Event("reasoning-chunk", Head(stYields)) >>, "reasoning")
    /\ AfterClose("reads")
    /\ UNCHANGED <<store, failures, stReq, stIP, stCode, stFixedCode, stExecs, stStreams,
                   connection, stProvider, notStream>>

\* suggestFixStream is done: the candidate fix is taken from fullReasoning and
\* checked, up to await executeCode(fixedCode)
StStreamEnds ==
    /\ stPc = "reasoning"
    /\ stYields = <<>>
    /\ \E fixedCode \in {ExtractFixedCode(fullReasoning)} :
       LET done == << Event("reasoning-complete", fullReasoning) >>
       IN  /\ stFixedCode' = fixedCode
           /\ IF fixedCode = "" \/ fixedCode = stCode
              THEN Emit(done \o NoCandidateEvents, "closed")
              ELSE IF HasMaliciousPattern(fixedCode)
              THEN Emit(done \o UnsafeEvents(fixedCode), "closed")
              ELSE Emit(done \o << Event("step", "Testing fixed code...") >>, "execFixed")
    /\ UNCHANGED <<store, failures, stReq, stIP, stCode, fullReasoning, stYields, stExecs,
                   stStreams, connection, stAfterClose, stProvider, notStream>>

\* executeCode(fixedCode) is back: Step 6 and controller.close()
StFixedExecuted(run) ==
    /\ stPc = "execFixed"
    /\ LET ex == ExecuteCode(stFixedCode, run) IN
       /\ stExecs' = Append(stExecs, [stage |-> "fixed", code |-> stFixedCode,
                                      success |-> ex.success, raised |-> ex.raised])
       /\ IF ex.raised
          THEN Catch("Cannot read properties of null (reading 'message')")
          ELSE IF ex.success
          THEN Emit(FixWorksEvents(ex, stFixedCode), AfterCandidateRun(ex))
          ELSE Emit(FixFailsEvents(ex, stFixedCode), AfterCandidateRun(ex))
    /\ AfterClose("execsEnded")
    /\ UNCHANGED <<store, failures, stReq, stIP, stCode, fullReasoning, stYields, stFixedCode,
                   stStreams, connection, stProvider, notStream>>

\* the caller's connection closes while the request is in progress: the
\* response stream is cancelled
StClientDisconnects ==
    /\ stPc \in {"parse", "rateLimit", "execOriginal", "reasoning", "execFixed"}
    /\ connection = "open"
    /\ connection' = "closed"
    /\ UNCHANGED <<store, failures, stReq, stPc, stIP, stCode, events, fullReasoning, stYields,
                   stFixedCode, stExecs, stStreams, stAfterClose, stProvider, notStream>>

\* what start(controller) does once the request has arrived
StStep ==
    \/ \E b \in Bodies, ip \in IPs : StParsed(b, ip)
    \/ \E failAt \in {None, "incr", "expire", "ttl"} : StRateLimitChecked(failAt)
    \/ \E run \in Runs, ps \in ProviderStreams : StOriginalExecuted(run, ps)
    \/ StChunk
    \/ StStreamEnds
    \/ \E run \in Runs : StFixedExecuted(run)

NextStream ==
    \/ StStart
    \/ \E b \in Bodies, ip \in IPs : StParsed(b, ip)
    \/ \E failAt \in {None, "incr", "expire", "ttl"} : StRateLimitChecked(failAt)
    \/ \E run \in Runs, ps \in ProviderStreams : StOriginalExecuted(run, ps)
    \/ StChunk
    \/ StStreamEnds
    \/ \E run \in Runs : StFixedExecuted(run)

\* the caller stays connected; request.json(), the store, the sandbox and the
\* advisor stream answer in the end
SpecStream == Init /\ [][NextStream]_vars /\ WF_vars(StStep)

NextStreamCancel ==
    \/ StStart
    \/ \E b \in Bodies, ip \in IPs : StParsed(b, ip)
    \/ \E failAt \in {None, "incr", "expire", "ttl"} : StRateLimitChecked(failAt)
    \/ \E run \in Runs, ps \in ProviderStreams : StOriginalExecuted(run, ps)
    \/ StChunk
    \/ StStreamEnds
    \/ \E run \in Runs : StFixedExecuted(run)
    \/ StClientDisconnects

\* the caller may disconnect
SpecStreamCancel == Init /\ [][NextStreamCancel]_vars


(***************************************************************************)
(* SpecClient: useDebugStream handles the reasoning-chunk events of one    *)
(* stream.  The route forwards each chunk that suggestFixStream yields as  *)
(* one reasoning-chunk event, so the events carry the provider text cut    *)
(* into non-empty pieces at any positions                                  *)
(***************************************************************************)
\* the texts a provider streams: a narrative, then a fenced block, then
\* perhaps more text
ProviderTexts ==
    { "Fix.~~~js\nok()\n~~~",
      "Use let. ~~~\nlet x\n~~~ Done",
      "No fix" }

\* the reasoning-chunk case of the switch: the new state.reasoning
ReasoningChunk(prev, text) ==
    CHOOSE r \in
        { IF Includes(newReasoning, Fence)
          THEN Trim(SubSeq(newReasoning, 1, FirstIndex(newReasoning, Fence, 1) - 1))
          ELSE newReasoning : newReasoning \in {prev \o text} } : TRUE

\* the narrative portion of a provider text: what precedes its first fence
Narrative(raw) ==
    IF Includes(raw, Fence) THEN SubSeq(raw, 1, FirstIndex(raw, Fence, 1) - 1) ELSE raw

notClient == <<now, ticks, store, failures, rlVars, pipeVars, sbVars, stVars, call, hook>>

\* startDebug: the state is reset and the request is sent; the provider will
\* stream text
ClStartDebug(text) ==
    /\ clPc \in {"idle", "done"}
    /\ reasoning' = ""
    /\ clPc' = "streaming"
    /\ clRest' = text
    /\ clSeen' = ""
    /\ UNCHANGED notClient

\* a reasoning-chunk event arrives with the next n characters of the text
ClReasoningChunk(n) ==
    /\ clPc = "streaming"
    /\ n <= Len(clRest)
    /\ reasoning' = ReasoningChunk(reasoning, SubSeq(clRest, 1, n))
    /\ clSeen' = clSeen \o SubSeq(clRest, 1, n)
    /\ clRest' = SubSeq(clRest, n + 1, Len(clRest))
    /\ UNCHANGED <<clPc, notClient>>

\* reasoning-complete: the stream has ended, the chunks are all handled
ClReasoningComplete ==
    /\ clPc = "streaming"
    /\ clRest = ""
    /\ clPc' = "done"
    /\ UNCHANGED <<reasoning, clRest, clSeen, notClient>>

NextClient ==
    \/ \E text \in ProviderTexts : ClStartDebug(text)
    \/ \E n \in 1 .. MaxChunkLen : ClReasoningChunk(n)
    \/ ClReasoningComplete

SpecClient == Init /\ [][NextClient]_vars


(***************************************************************************)
(* SpecCalls: functions called on their own, with inputs on both sides of  *)
(* their limits                                                            *)
(***************************************************************************)
\* the codes sanitizeCode is given, by what it reads of them.  A code has a
\* newline between two lines, its longest line is one of its lines and a
\* run of base64 characters lies within a line
CodeShapes ==
    { sh \in [length  : {0, 3, 600, MAX_CODE_LENGTH - 1, MAX_CODE_LENGTH, MAX_CODE_LENGTH + 1},
              lines   : {1, 2, MAX_LINES - 1, MAX_LINES, MAX_LINES + 1},
              blank   : BOOLEAN,
              longest : {0, 3, LongLine, LongLine + 1},
              base64  : {0, LongLine - 1, LongLine}] :
        /\ sh.length >= (sh.lines - 1) + sh.longest
        /\ sh.length - (sh.lines - 1) <= sh.lines * sh.longest
        /\ sh.base64 <= sh.longest
        /\ sh.blank => sh.base64 = 0
        /\ sh.length = 0 => sh.blank }

\* the step logs DebugResults is given: records of two step names, with
\* timestamps in any order
StepLogs ==
    LET records == [step : {"Parse Request", "Rate Limit Check"},
                    status : {"pending", "success", "error"},
                    timestamp : {0, 300}]
    IN  UNION { [1 .. n -> records] : n \in 0 .. MaxLogLen }

\* acc.findIndex(s => s.step === step.step), from 1; 0 when there is none
FindIndex(acc, name) ==
    IF \E i \in DOMAIN acc : acc[i].step = name
    THEN CHOOSE i \in DOMAIN acc :
            acc[i].step = name /\ \A j \in 1 .. i - 1 : acc[j].step # name
    ELSE 0

\* a reducer that keeps the earlier record on equal timestamps
KeepLatestStrict(acc, step) ==
    IF FindIndex(acc, step.step) = 0 THEN Append(acc, step)
    ELSE IF step.timestamp > acc[FindIndex(acc, step.step)].timestamp
    THEN [acc EXCEPT ![FindIndex(acc, step.step)] = step]
    ELSE acc

\* the reducer of deduplicatedSteps
KeepLatest(acc, step) ==
    IF FindIndex(acc, step.step) = 0 THEN Append(acc, step)
    ELSE IF step.timestamp >= acc[FindIndex(acc, step.step)].timestamp
    THEN [acc EXCEPT ![FindIndex(acc, step.step)] = step]
    ELSE acc

\* result.steps.reduce(..., []) from acc on
RECURSIVE Reduce(_, _)
Reduce(acc, log) ==
    IF log = <<>> THEN acc ELSE Reduce(KeepLatest(acc, Head(log)), Tail(log))

DeduplicatedSteps(log) == Reduce(<<>>, log)

notCalls == <<now, ticks, store, failures, rlVars, pipeVars, sbVars, stVars, clVars, hook>>

\* sanitizeCode(code) is called and returns; a behaviour holds one call
CallSanitizeCode(shape) ==
    /\ call.fn = None
    /\ call' = [fn |-> "sanitizeCode", input |-> shape, output |-> SanitizeCode(shape)]
    /\ UNCHANGED notCalls

\* DebugResults renders a result with the step log
CallDeduplicatedSteps(log) ==
    /\ call.fn = None
    /\ call' = [fn |-> "deduplicatedSteps", input |-> log, output |-> DeduplicatedSteps(log)]
    /\ UNCHANGED notCalls

\* the identities a key is built from: the addresses, and every string of up
\* to MaxIdLen characters
IdChars == {"1", "a", ".", ":", "/", " "}
Identities == IPs \cup UNION { [1 .. n -> IdChars] : n \in 0 .. MaxIdLen }

\* checkRateLimit(ip) builds its key
CallKeyOf(ip) ==
    /\ call.fn = None
    /\ call' = [fn |-> "key", input |-> ip, output |-> KeyOf(ip)]
    /\ UNCHANGED notCalls

NextCalls ==
    \/ \E ip \in Identities : CallKeyOf(ip)
    \/ \E shape \in CodeShapes : CallSanitizeCode(shape)
    \/ \E log \in StepLogs : CallDeduplicatedSteps(log)

SpecCalls == Init /\ [][NextCalls]_vars

(***************************************************************************)
(* Properties                                                              *)
(***************************************************************************)
Done == pc = "done"

LastStep == steps[Len(steps)]

\* suggestFix call i returned a suggestion (it did not throw)
Returned(i) == ~advisorCalls[i].result.threw

\* suggestFix call i returned a suggestion flagged malicious
Malicious(i) == Returned(i) /\ advisorCalls[i].result.is_malicious

\* suggestFix call i returned a fix
ReturnedFix(i) == Returned(i) /\ ~advisorCalls[i].result.is_malicious

\* C1: once the original code has executed successfully the request is over
\* with success=true (status 200), after that one execution and without any
\* suggestFix call.
C1_OriginalWorksNoAdvisor ==
    (Len(execs) >= 1 /\ execs[1].success)
        => /\ Done
           /\ response.success
           /\ response.status = 200
           /\ Len(execs) = 1
           /\ advisorCalls = <<>>

C1_Witness == Done /\ Len(execs) = 1 /\ execs[1].success /\ response.success

\* C2: no request makes more than two suggestFix calls; a finished request in
\* which the executions of the original code and of the first fix both
\* returned a failure and no suggestion was flagged malicious made exactly
\* two, and it succeeded exactly when the second fix was executed and ran.
C2_TwoAttempts ==
    /\ Len(advisorCalls) <= 2
    /\ (/\ Done
        /\ Len(execs) >= 2
        /\ ~execs[1].success
        /\ ~execs[2].success /\ ~execs[2].raised
        /\ \A i \in DOMAIN advisorCalls : ~Malicious(i))
        => /\ Len(advisorCalls) = 2
           /\ Len(execs) <= 3
           /\ Returned(2) => Len(execs) = 3
           /\ response.success <=> (Len(execs) = 3 /\ execs[3].success)

C2_Witness ==
    /\ Done
    /\ Len(execs) = 3
    /\ \A i \in 1 .. 3 : ~execs[i].success /\ ~execs[i].raised
    /\ Len(advisorCalls) = 2
    /\ ~response.success

\* C3: a finished request has success=true exactly when one of its sandbox
\* executions returned success=true.
C3_SuccessIffSomeRunSucceeded ==
    Done => (response.success <=> \E i \in DOMAIN execs : execs[i].success)

C3_Witness == Done /\ response.success /\ Len(execs) = 2 /\ execs[2].success

\* the request was rejected by the rate limiter
RateLimited == rateLimitResult # NoResult /\ ~rateLimitResult.allowed

\* the request passed the rate limiter and failed sanitizeCode
Invalid ==
    /\ rateLimitResult # NoResult
    /\ rateLimitResult.allowed
    /\ pc # "Validate"
    /\ ~SanitizeCode(Shape(originalCode)).isValid

\* C4: a rate-limit rejection or a size-validation failure ends the request
\* at once: the last record of the log is that step's, with status error, and
\* neither the sandbox nor the advisor was called.
C4_RejectionStopsPipeline ==
    /\ RateLimited =>
          /\ Done
          /\ LastStep.step = "Rate Limit Check" /\ LastStep.status = "error"
          /\ response.status = 429 /\ ~response.success
          /\ execs = <<>> /\ advisorCalls = <<>>
    /\ Invalid =>
          /\ Done
          /\ LastStep.step = "Validate Code Size" /\ LastStep.status = "error"
          /\ response.status = 400 /\ ~response.success
          /\ execs = <<>> /\ advisorCalls = <<>>

C4_Witness == Done /\ RateLimited /\ Len(steps) = 4

\* C5: when a suggestFix call returns is_malicious=true the request is over,
\* rejected with status 400, success=false and the malicious error, which no
\* execution-failure outcome carries (that one has status 200 and another
\* error), and no executeCode call follows that suggestFix call.
C5_MaliciousRejected ==
    \A i \in DOMAIN advisorCalls :
        Malicious(i) =>
            /\ Done
            /\ i = Len(advisorCalls)
            /\ Len(execs) = i
            /\ \A j \in DOMAIN execs :
                  execs[j].stage \in {"Execute Original Code", "Execute Fixed Code"}
            /\ execs[i].stage # "Execute Retry Fix"
            /\ i = 1 => execs[1].stage = "Execute Original Code"
            /\ response.status = 400
            /\ ~response.success
            /\ response.error = "Code appears to be malicious"
            /\ response # RespBothFailed(originalCode, advisorCalls[i].result, rateLimitResult)

C5_Witness == Done /\ Len(advisorCalls) = 2 /\ Malicious(2) /\ advisorCalls[2].result.fixed_code # EmptyCode

\* C6: the second suggestFix call is given the first fix's code, and when the
\* execution of the retry fix returns a failure too the outcome has
\* success=false and fixedCode is the retry fix's code.
C6_RetryUsesFirstFix ==
    /\ Len(advisorCalls) >= 2 =>
          /\ ReturnedFix(1)
          /\ advisorCalls[2].input = advisorCalls[1].result.fixed_code
    /\ (Done /\ Len(execs) = 3 /\ ~execs[3].success /\ ~execs[3].raised) =>
          /\ ~response.success
          /\ response.fixedCode = advisorCalls[2].result.fixed_code
          /\ response.fixedCode = execs[3].code

C6_Witness ==
    /\ Done
    /\ Len(execs) = 3
    /\ ~execs[3].success /\ ~execs[3].raised
    /\ advisorCalls[2].input # originalCode
    /\ advisorCalls[2].result.fixed_code # advisorCalls[1].result.fixed_code

\* C7: the outcome of a finished request carries fixedCode only if a
\* suggestFix call of the request returned a fix, and then it is the code of
\* such a fix; an outcome produced before any suggestFix call returned has
\* none.
C7_FixedCodeOnlyAfterFix ==
    Done =>
        /\ response.fixedCode # Absent =>
              \E i \in DOMAIN advisorCalls :
                  ReturnedFix(i) /\ response.fixedCode = advisorCalls[i].result.fixed_code
        /\ (\A i \in DOMAIN advisorCalls : ~Returned(i)) => response.fixedCode = Absent

C7_Witness == Done /\ response.fixedCode # Absent /\ Len(advisorCalls) = 1

\* C8 (as claimed): with the store reachable, a call that returns within its
\* window is allowed exactly when it is one of the first
\* MAX_REQUESTS_PER_HOUR of the window, and a later call of the window is
\* rejected with resetAt equal to the time of the window's first increment
\* plus the window length.
C8_ResetAtIsWindowEnd ==
    (/\ rlRet.valid
     /\ failures = 0
     /\ ~rlHist.byKey[rlRet.key].overlap
     /\ rlRet.at < rlRet.start + RATE_LIMIT_WINDOW_SECONDS * 1000)
        => /\ rlRet.result.allowed <=> rlRet.count <= MAX_REQUESTS_PER_HOUR
           /\ rlRet.count > MAX_REQUESTS_PER_HOUR =>
                 rlRet.result.resetAt = rlRet.start + RATE_LIMIT_WINDOW_SECONDS * 1000

\* C9: no increment is lost.  The stored count of a key is the number of
\* calls that incremented it in its window, however their store operations
\* interleaved, and once these calls have all returned, none of them after a
\* store failure, exactly min(N, limit) of the N were allowed.
C9_NoLostIncrement ==
    \A k \in Keys :
        LET h == rlHist.byKey[k] IN
        h.start # NoExpiry =>
            /\ store[k].start = h.start
            /\ store[k].count = h.started
            /\ (h.returned = h.started /\ h.failed = 0) =>
                  h.allowed = Min(h.started, MAX_REQUESTS_PER_HOUR)

C9_Witness ==
    \E k \in Keys :
        LET h == rlHist.byKey[k] IN
        /\ h.started > MAX_REQUESTS_PER_HOUR
        /\ h.returned = h.started
        /\ h.failed = 0
        /\ h.overlap
        /\ h.allowed = MAX_REQUESTS_PER_HOUR

\* C10: when a store operation fails during the request's checkRateLimit the
\* check returns allowed=true with the full quota remaining, nothing is
\* raised (the Rate Limit Check step succeeds), and POST goes on to validate
\* the code and, when it is valid, to execute it.
C10_FailOpen ==
    rlFailedAt # None =>
        /\ rateLimitResult.allowed
        /\ rateLimitResult.remaining = MAX_REQUESTS_PER_HOUR
        /\ rateLimitResult.limit = MAX_REQUESTS_PER_HOUR
        /\ steps[4].step = "Rate Limit Check" /\ steps[4].status = "success"
        /\ response.status # 429
        /\ \/ pc = "Validate"
           \/ Len(steps) >= 6 /\ steps[5].step = "Validate Code Size"
        /\ (pc # "Validate" /\ SanitizeCode(Shape(originalCode)).isValid) =>
              \/ pc = "ExecuteOriginal"
              \/ Len(execs) >= 1 /\ execs[1].code = originalCode

C10_Witness ==
    /\ rlFailedAt = "ttl"
    /\ store[KeyOf(clientIP)].count > MAX_REQUESTS_PER_HOUR
    /\ Len(execs) >= 1

\* C11 (as claimed): executeCode never raises; a call ends by returning a
\* result, which has success=false and an error unless the run completed
\* normally, and timedOut=false when success=true.
C11_NeverRaises ==
    /\ sbPc # "raised"
    /\ sbPc = "returned" =>
          /\ sbEnded # "completed" => (~sbResult.success /\ sbResult.error # NoError)
          /\ sbResult.success => sbResult.timedOut = "false"

\* C12: a run stopped at the timeout returns timedOut=true and success=false,
\* and stdout holds the lines the program had logged by then.
C12_TimeoutKeepsOutput ==
    (sbPc = "returned" /\ sbEnded = "timeout") =>
        /\ sbResult.timedOut = "true"
        /\ ~sbResult.success
        /\ sbResult.stdout = Join(sbOutputs)

C12_Witness ==
    /\ sbPc = "returned"
    /\ sbEnded = "timeout"
    /\ sbOutputs = <<"out1", "out2">>
    /\ sbResult.stdout = "out1\nout2"

\* C13 (as claimed): a call that created an isolate has disposed of it when
\* it ends, however it ends.
C13_IsolateTornDown ==
    (sbPc \in {"returned", "raised"} /\ sbIsolate # "none") => sbIsolate = "disposed"

\* the types of the events sent so far
EventTypes == [i \in DOMAIN events |-> events[i].type]

\* the number of events of a type
Sent(type) == Cardinality({ i \in DOMAIN events : events[i].type = type })

\* C14: a streaming request opens at most one advisor stream and runs at most
\* two executions, the original code first and then one candidate fix, and
\* the request is over once the candidate has run.
C14_OneFixAttempt ==
    /\ stStreams <= 1
    /\ Sent("reasoning-start") <= 1
    /\ Len(stExecs) <= 2
    /\ \A i \in DOMAIN stExecs : stExecs[i].stage = "original" <=> i = 1
    /\ Len(stExecs) = 2 => (stPc = "closed" /\ stStreams = 1)

C14_Witness ==
    /\ stPc = "closed"
    /\ Len(stExecs) = 2
    /\ ~stExecs[2].success /\ ~stExecs[2].raised
    /\ events[Len(events)] = Complete(FALSE, "")

\* candidate fixes that hold one of the guard rail's constructs
UnsafeCandidates ==
    { "eval (x)", "new Function('a')", "a.constructor . constructor", "o.__proto__",
      "require('fs')", "import fs" }

\* C17: a candidate fix that matches a guard-rail pattern is never executed,
\* and the request's event stream has no output event.
C17_UnsafeFixNeverRun ==
    stFixedCode \in UnsafeCandidates =>
        /\ \A i \in DOMAIN stExecs : stExecs[i].stage # "fixed" /\ stExecs[i].code # stFixedCode
        /\ Sent("output") = 0
        /\ stPc = "closed"

C17_Witness ==
    /\ stFixedCode = "a.constructor . constructor"
    /\ stPc = "closed"
    /\ Sent("fixed-code") = 1
    /\ Len(stExecs) = 1

\* the request has arrived and its stream is not closed yet
StInProgress == stPc \in {"parse", "rateLimit", "execOriginal", "reasoning", "execFixed"}

\* C18: a streaming request closes its stream in the end; the last event
\* before the close is complete or error, complete is sent at most once and
\* nothing is sent after it.
C18_StreamCloses ==
    /\ [](/\ stPc = "closed" => events[Len(events)].type \in {"complete", "error"}
          /\ Sent("complete") <= 1
          /\ \A i \in DOMAIN events : events[i].type = "complete" => i = Len(events))
    /\ (StInProgress ~> stPc = "closed")

C18_Witness ==
    /\ stPc = "closed"
    /\ Len(stExecs) = 2
    /\ stExecs[2].raised
    /\ events[Len(events)].type = "error"
    /\ Sent("complete") = 0

\* C19 (as claimed): once the caller's connection has closed the request
\* reads no further advisor chunk and no executeCode call runs on.
C19_AbandonedAfterClose ==
    Closed => (stAfterClose.reads = 0 /\ stAfterClose.execsEnded = 0)

\* C15 (as claimed): when the stream has ended, the reasoning text the
\* consumer accumulated from the reasoning-chunk events equals the narrative
\* that precedes the first fence of the provider text, however the text was
\* divided into chunks.
C15_ReasoningIsNarrative ==
    clPc = "done" => reasoning = Narrative(clSeen)

\* C16 (as claimed): once a fence marker has been observed, a later
\* reasoning-chunk event of the same stream leaves the accumulated reasoning
\* text as it is.
C16_NothingAppendedAfterFence ==
    [][(clPc = "streaming" /\ Includes(clSeen, Fence)) => reasoning' = reasoning]_vars

\* the provider replies that violate the schema: text that is no JSON, and
\* JSON that does not conform to FixSuggestionSchema
SchemaViolations == {"unparseable", "nonconforming", "nonconforming429"}

\* C20 (as claimed): suggestFix reports a quota failure as the retry-later
\* error, an unparseable or non-conforming reply as the schema error and any
\* other failure as the generic error, and never returns a non-conforming
\* reply as a suggestion.
C20_FailuresClassified ==
    \A i \in DOMAIN advisorCalls :
        LET made == advisorCalls[i] IN
        /\ made.reply \in SchemaViolations =>
                made.result.threw /\ made.result.message = InvalidResponseMessage
        /\ made.reply = "quota" => made.result.threw /\ made.result.message = QuotaMessage
        /\ made.reply = "failure" =>
                /\ made.result.threw
                /\ made.result.message \notin {QuotaMessage, InvalidResponseMessage}

\* C21 (as claimed): when the provider's stream fails on a quota, the request
\* tells the caller to retry later in an event that is no reasoning chunk.
C21_QuotaSurfaced ==
    (stPc = "closed" /\ stProvider = "quota") =>
        \E i \in DOMAIN events :
            events[i].type # "reasoning-chunk" /\ events[i].text = QuotaMessage

\* an exception was raised in the request: request.json() threw, an
\* executeCode call raised or a suggestFix call threw
Threw ==
    \/ body = "throws"
    \/ \E i \in DOMAIN execs : execs[i].raised
    \/ \E i \in DOMAIN advisorCalls : advisorCalls[i].result.threw

C23_StatusByOutcome ==
    Done =>
        /\ (\E i \in DOMAIN execs : execs[i].success) => response.status = 200
        /\ (body = "invalid" \/ Invalid \/ \E i \in DOMAIN advisorCalls : Malicious(i)) =>
                response.status = 400
        /\ RateLimited =>
                /\ response.status = 429
                /\ response.rateLimit = RateLimitOf(rateLimitResult)
                /\ response.rateLimit.limit = MAX_REQUESTS_PER_HOUR
                /\ response.rateLimit.remaining = 0
        /\ Threw => response.status = 500
        /\ response.status \in {200, 400, 429, 500}

C23_Witness ==
    /\ Done
    /\ RateLimited
    /\ response.status = 429
    /\ response.rateLimit.present

Latest(log, name) ==
    CHOOSE j \in DOMAIN log :
        /\ log[j].step = name
        /\ \A i \in DOMAIN log :
              log[i].step = name =>
                  \/ log[i].timestamp < log[j].timestamp
                  \/ log[i].timestamp = log[j].timestamp /\ i <= j

\* where the name occurs first in log
FirstOf(log, name) == CHOOSE j \in DOMAIN log : log[j].step = name /\ \A i \in 1 .. j - 1 : log[i].step # name

\* C27: the de-duplicated log has one record for each step name of the log,
\* the one with the latest timestamp (the later one on equal timestamps), and
\* the names stand in the order in which they first occur.
C27_LatestRecordPerStep ==
    call.fn = "deduplicatedSteps" =>
        LET log == call.input
            out == call.output
        IN  /\ { out[k].step : k \in DOMAIN out } = { log[j].step : j \in DOMAIN log }
            /\ \A k, l \in DOMAIN out : out[k].step = out[l].step => k = l
            /\ \A k \in DOMAIN out : out[k] = log[Latest(log, out[k].step)]
            /\ \A k, l \in DOMAIN out :
                  k < l => FirstOf(log, out[k].step) < FirstOf(log, out[l].step)

C27_Witness ==
    /\ call.fn = "deduplicatedSteps"
    /\ Len(call.input) = 3 /\ Len(call.output) = 2
    /\ call.input[1].step = call.input[3].step
    /\ call.input[1].timestamp = call.input[3].timestamp
    /\ call.input[1].status # call.input[3].status
    /\ call.output[1] = call.input[3]

\* the letters and digits of the identities
Alphanumeric == {"1", "2", "a", "b"}

\* how often ch occurs in the string str
RECURSIVE Occurrences(_, _)
Occurrences(str, ch) ==
    IF str = <<>> THEN 0
    ELSE (IF Head(str) = ch THEN 1 ELSE 0) + Occurrences(Tail(str), ch)

\* C30 (as claimed): the key of an identity is the fixed prefix followed by
\* the identity without its non-alphanumeric characters, so that only
\* letters and digits follow the prefix.
C30_KeyIsAlphanumeric ==
    call.fn = "key" =>
        /\ Head(call.output) = "ratelimit:"
        /\ \A i \in 2 .. Len(call.output) : call.output[i] \in Alphanumeric

\* C30 (amended): the key is the fixed prefix followed by characters of the
\* identity that are letters, digits, dots or colons; every such character
\* of the identity is kept, and every other character is dropped.
C30_KeyKeepsAddressChars ==
    call.fn = "key" =>
        /\ Head(call.output) = "ratelimit:"
        /\ \A i \in 2 .. Len(call.output) : call.output[i] \in Alphanumeric \cup {".", ":"}
        /\ \A ch \in Alphanumeric \cup {".", ":"} :
              Occurrences(Tail(call.output), ch) = Occurrences(call.input, ch)

\* C30 witness: the key of an identity with a dot, which is kept, and a
\* slash, which is dropped
C30_Witness ==
    /\ call.fn = "key"
    /\ Occurrences(call.input, ".") > 0
    /\ Occurrences(call.input, "/") > 0
    /\ Len(call.output) = Len(call.input)

\* C28: the expiry of a key changes only when an increment creates the key
\* (which has no expiry yet) or when the call whose increment returned 1 sets
\* it, on a key without expiry, to the window length from that moment; no
\* other call, allowed or rejected, moves the end of the window.
C28_ExpiryOnFirstIncrementOnly ==
    [][\A k \in Keys :
          store'[k].expireAt # store[k].expireAt =>
              \/ /\ store'[k].count = 1
                 /\ store'[k].start # store[k].start
                 /\ store'[k].expireAt = NoExpiry
              \/ /\ store[k].expireAt = NoExpiry
                 /\ store'[k].expireAt = now + RATE_LIMIT_WINDOW_SECONDS * 1000
                 /\ store'[k].start = store[k].start
                 /\ \E c \in Slots :
                       rl[c].key = k /\ rl[c].count = 1 /\ rl'[c].pc = "ttl"]_vars

\* C28 witness: a rejected call returned in a window whose expiry was set
C28_Witness ==
    /\ rlRet.valid /\ rlRet.failed = None
    /\ rlRet.count > MAX_REQUESTS_PER_HOUR
    /\ ~rlRet.result.allowed
    /\ store[rlRet.key].start = rlRet.start
    /\ store[rlRet.key].expireAt # NoExpiry

\* the count kv.incr returned to the request's checkRateLimit call (the
\* store is written by no one else until the next request)
CountReturned == store[KeyOf(clientIP)].count

\* what every result satisfies, and what checkRateLimitOrThrow does with it:
\* the request ends with the 429 response carrying the result exactly when
\* the result is not allowed
ResultBoundsAndThrow ==
    /\ rateLimitResult.limit = MAX_REQUESTS_PER_HOUR
    /\ 0 <= rateLimitResult.remaining
    /\ rateLimitResult.remaining <= rateLimitResult.limit
    /\ ~rateLimitResult.allowed => rateLimitResult.remaining = 0
    /\ ~rateLimitResult.allowed =>
          /\ Done
          /\ response.status = 429
          /\ response.rateLimit = RateLimitOf(rateLimitResult)
          /\ LastStep.step = "Rate Limit Check" /\ LastStep.status = "error"
    /\ rateLimitResult.allowed =>
          /\ response.status # 429
          /\ \E i \in 1 .. Len(steps) :
                steps[i].step = "Rate Limit Check" /\ steps[i].status = "success"

\* C29 (as claimed): every result of checkRateLimit whose increment returned
\* a count has remaining = max(0, limit - count) and allowed = (count <=
\* limit); remaining lies in 0 .. limit and is 0 when the call is rejected;
\* checkRateLimitOrThrow raises exactly when the result is not allowed.
C29_ResultFromCount ==
    rateLimitResult # NoResult =>
        /\ rlFailedAt # "incr" =>
              /\ rateLimitResult.remaining = Max(0, MAX_REQUESTS_PER_HOUR - CountReturned)
              /\ rateLimitResult.allowed = (CountReturned <= MAX_REQUESTS_PER_HOUR)
        /\ ResultBoundsAndThrow

\* C29 (amended): a result of a call whose store operations all succeeded is
\* computed from the count; a call that hit a store failure returns the
\* fail-open result, allowed with the full quota, whatever the count; every
\* result has remaining in 0 .. limit, 0 when rejected, and
\* checkRateLimitOrThrow raises exactly when the result is not allowed.
C29_ResultFromCountUnlessStoreFails ==
    rateLimitResult # NoResult =>
        /\ rlFailedAt = None =>
              /\ rateLimitResult.remaining = Max(0, MAX_REQUESTS_PER_HOUR - CountReturned)
              /\ rateLimitResult.allowed = (CountReturned <= MAX_REQUESTS_PER_HOUR)
        /\ rlFailedAt # None =>
              /\ rateLimitResult.allowed
              /\ rateLimitResult.remaining = MAX_REQUESTS_PER_HOUR
        /\ ResultBoundsAndThrow

\* C29 witness: the call whose count exceeds the limit is rejected with
\* nothing remaining
C29_Witness ==
    /\ Done /\ rlFailedAt = None
    /\ CountReturned > MAX_REQUESTS_PER_HOUR
    /\ ~rateLimitResult.allowed /\ rateLimitResult.remaining = 0
    /\ response.status = 429

(***************************************************************************)
(* SpecEither: the server handles requests of one variant, POST /api/debug *)
(* or POST /api/debug-stream                                               *)
(***************************************************************************)
NextEither ==
    \/ stReq = 0 /\ Next
    \/ req = 0 /\ ticks = 0 /\ NextStream

SpecEither == Init /\ [][NextEither]_vars

\* C26 (as claimed): a request of either variant runs at most two sandbox
\* executions and makes at most two advisor calls.
C26_AtMostTwoExecutions ==
    /\ Len(execs) <= 2 /\ Len(advisorCalls) <= 2
    /\ Len(stExecs) <= 2 /\ stStreams <= 2

\* C26 (amended): a buffered request runs at most three sandbox executions
\* (the submitted code, the first fix, the retry fix) and makes at most two
\* advisor calls, an execution always following the advisor call before it;
\* a streaming request runs at most two executions and opens at most one
\* advisor stream.
C26_ExecutionsBounded ==
    /\ Len(execs) <= 3 /\ Len(advisorCalls) <= 2
    /\ Len(execs) <= Len(advisorCalls) + 1
    /\ Len(advisorCalls) <= Len(execs)
    /\ Len(stExecs) <= 2 /\ stStreams <= 1
    /\ stStreams <= Len(stExecs)

\* C26 witness: a buffered request that ran the code, the fix and the retry
C26_Witness ==
    /\ Done /\ stReq = 0
    /\ Len(execs) = 3 /\ Len(advisorCalls) = 2
    /\ execs[3].stage = "Execute Retry Fix"

\* the step the pipeline was at when it stopped: the last one it began
StoppedAt ==
    LET begun == { i \in DOMAIN steps : steps[i].status = "pending" }
    IN  steps[CHOOSE i \in begun : \A j \in begun : j <= i].step

\* C25 (as claimed): a finished request with success = false has an error
\* message that is not empty, and its step log has a record with status
\* error that is named after the step at which the pipeline stopped.
C25_FailureNamesStep ==
    (Done /\ ~response.success) =>
        /\ response.error # Absent /\ response.error # ""
        /\ \E i \in DOMAIN steps :
              steps[i].status = "error" /\ steps[i].step = StoppedAt

\* the steps of POST /api/debug in the order the handler reaches them
StepOrder ==
    << "Parse Request", "Rate Limit Check", "Validate Code Size", "Execute Original Code",
       "Generate Fix", "Execute Fixed Code", "Retry Fix", "Execute Retry Fix" >>

\* how many steps the log has begun up to its record i
BegunUpTo(i) == Cardinality({ j \in 1 .. i : steps[j].status = "pending" })

\* C31: the k-th step the log begins is the k-th step of the fixed order, so
\* that the step names form a prefix of the order with none skipped; a
\* success or error record of a step directly follows the pending record
\* of that step; a record named Error, if there is one, is the last.
C31_StepsInOrder ==
    \A i \in DOMAIN steps :
        /\ steps[i].status = "pending" =>
              /\ BegunUpTo(i) <= Len(StepOrder)
              /\ steps[i].step = StepOrder[BegunUpTo(i)]
        /\ (steps[i].status # "pending" /\ steps[i].step # "Error") =>
              /\ i > 1
              /\ steps[i - 1].step = steps[i].step
              /\ steps[i - 1].status = "pending"
        /\ steps[i].step = "Error" => (i = Len(steps) /\ steps[i].status = "error")

\* C31 witness: a finished request whose log runs through all eight steps
C31_Witness ==
    /\ Done
    /\ Len(steps) = 2 * Len(StepOrder)
    /\ LastStep.step = "Execute Retry Fix"

\* the positions of the events of a type
Positions(type) == { i \in DOMAIN events : events[i].type = type }

\* the texts of the reasoning-chunk events among the first n events, joined
RECURSIVE ForwardedText(_)
ForwardedText(n) ==
    IF n = 0 THEN ""
    ELSE ForwardedText(n - 1)
         \o (IF events[n].type = "reasoning-chunk" THEN events[n].text ELSE "")

\* the events of a response keep the reasoning in one bracket
ReasoningBracketed ==
    /\ Sent("reasoning-start") <= 1
    /\ Sent("reasoning-complete") <= 1
    /\ \A c \in Positions("reasoning-chunk") :
          /\ \E b \in Positions("reasoning-start") : b < c
          /\ \A e \in Positions("reasoning-complete") : c < e
    /\ \A e \in Positions("reasoning-complete") :
          /\ stYields = <<>>
          /\ events[e].text = ForwardedText(Len(events))

\* C32: a chunk the advisor stream yields is forwarded at once as one
\* reasoning-chunk event, the chunks in the order yielded; the chunk events
\* lie after the one reasoning-start and before the one reasoning-complete
\* event, which is sent when every chunk has been forwarded and whose
\* fullText is the texts of the forwarded chunks joined.
C32_ChunksForwardedInOrder ==
    /\ []ReasoningBracketed
    /\ [][(stReq' = stReq /\ stYields # <<>> /\ events' # events) =>
            /\ events' = Append(events, Event("reasoning-chunk", Head(stYields)))
            /\ stYields' = Tail(stYields)]_vars

\* C32 witness: a response with several chunks and its reasoning-complete
C32_Witness ==
    /\ Sent("reasoning-chunk") >= 3
    /\ Sent("reasoning-complete") = 1
    /\ stPc = "closed"

\* the content of the first fenced code block of text: the block opens at
\* the first fence, its opening line (the fence and a language tag, if any)
\* ends at the next line break, and its content runs up to the next fence;
\* "" when text has no such block
FirstFencedBlock(text) ==
    LET open  == FirstIndex(text, Fence, 1)
        break == IF open = 0 THEN 0 ELSE FirstIndex(text, "\n", open + 3)
        close == IF break = 0 THEN 0 ELSE FirstIndex(text, Fence, break + 1)
    IN  IF close = 0 THEN "" ELSE SubSeq(text, break + 1, close - 1)

\* C33 (as claimed): once the advisor stream has ended the candidate fix is
\* the content of the first fenced code block of the accumulated text; when
\* it is empty (no block, or an empty one) or equals the submitted code the
\* response ends with complete, success = false, nothing more is executed
\* and no fixed-code event is sent.
C33_CandidateIsFirstBlock ==
    Sent("reasoning-complete") = 1 =>
        /\ stFixedCode = Trim(FirstFencedBlock(fullReasoning))
        /\ (stFixedCode = "" \/ stFixedCode = stCode) =>
              /\ stPc = "closed"
              /\ events[Len(events)] = Complete(FALSE, "Could not extract fixed code from AI response")
              /\ Sent("fixed-code") = 0
              /\ Len(stExecs) = 1

(***************************************************************************)
(* SpecHook: startDebug of useDebugStream reads the response of a          *)
(* streaming request.  The response body is the messages of sendMessage,   *)
(* one after the other; a read returns the next part of it, of any length. *)
(* The body is a sequence of tokens: the prefix "data: ", the JSON text of *)
(* an event in two halves, and line breaks.                                *)
(***************************************************************************)
NoEvent == Event("none", "")

PrefixToken == [kind |-> "data: ", half |-> 0, ev |-> NoEvent]
LineBreak == [kind |-> "\n", half |-> 0, ev |-> NoEvent]
JsonHalf(ev, half) == [kind |-> "json", half |-> half, ev |-> ev]

\* sendMessage: `data: ${JSON.stringify({ type, ...data })}\n\n`
Message(ev) == << PrefixToken, JsonHalf(ev, 1), JsonHalf(ev, 2), LineBreak, LineBreak >>

\* the body of a response: the messages of its events
RECURSIVE Wire(_)
Wire(evs) == IF evs = <<>> THEN <<>> ELSE Message(Head(evs)) \o Wire(Tail(evs))

\* chunk.split('\n\n'): the pieces between two line breaks in a row, from
\* the left
RECURSIVE SplitMessages(_, _)
SplitMessages(piece, rest) ==
    IF rest = <<>> THEN << piece >>
    ELSE IF Len(rest) >= 2 /\ rest[1] = LineBreak /\ rest[2] = LineBreak
    THEN << piece >> \o SplitMessages(<<>>, SubSeq(rest, 3, Len(rest)))
    ELSE SplitMessages(Append(piece, Head(rest)), Tail(rest))

\* the white space JSON.parse skips at both ends of its text
RECURSIVE StripBreaks(_)
StripBreaks(toks) ==
    IF toks = <<>> THEN <<>>
    ELSE IF Head(toks) = LineBreak THEN StripBreaks(Tail(toks))
    ELSE IF toks[Len(toks)] = LineBreak THEN StripBreaks(SubSeq(toks, 1, Len(toks) - 1))
    ELSE toks

\* JSON.parse(text): the event when text is the whole JSON text of one
\* event, a SyntaxError otherwise
JsonParse(text) ==
    LET toks == StripBreaks(text) IN
    IF /\ Len(toks) = 2
       /\ toks[1].kind = "json" /\ toks[1].half = 1
       /\ toks[2] = JsonHalf(toks[1].ev, 2)
    THEN [threw |-> FALSE, data |-> toks[1].ev]
    ELSE [threw |-> TRUE, data |-> NoEvent]

\* a property that JSON.stringify left out, or an empty string
Falsy(text) == text \in {"", Absent}

\* the switch on data.type: the new state of the hook
HandleMessage(prev, data) ==
    CASE data.type = "step" ->
            IF Falsy(data.text) THEN prev
            ELSE [prev EXCEPT !.steps = Append(@, data.text)]
      [] data.type = "reasoning-start" ->
            [prev EXCEPT !.steps =
                Append(@, IF Falsy(data.text) THEN "AI is thinking..." ELSE data.text)]
      [] data.type = "reasoning-chunk" ->
            IF Falsy(data.text) THEN prev
            ELSE [prev EXCEPT !.reasoning = ReasoningChunk(@, data.text)]
      [] data.type = "output" ->
            IF data.text = Absent THEN prev ELSE [prev EXCEPT !.output = data.text]
      [] data.type = "fixed-code" ->
            IF Falsy(data.text) THEN prev ELSE [prev EXCEPT !.fixedCode = data.text]
      [] data.type = "error" ->
            [prev EXCEPT !.error = IF Falsy(data.text) THEN "Unknown error" ELSE data.text]
      [] data.type = "complete" ->
            [prev EXCEPT !.success = IF data.success THEN "true" ELSE "false",
                         !.isStreaming = FALSE]
      [] OTHER -> prev

\* the body of the for loop: a piece that starts with "data: " is parsed and
\* handled; a piece that does not parse is logged and dropped
HandlePiece(prev, msg) ==
    IF msg = <<>> \/ Head(msg) # PrefixToken THEN prev
    ELSE LET parsed == JsonParse(Tail(msg))
         IN  IF parsed.threw THEN prev ELSE HandleMessage(prev, parsed.data)

RECURSIVE HandlePieces(_, _)
HandlePieces(prev, messages) ==
    IF messages = <<>> THEN prev
    ELSE HandlePieces(HandlePiece(prev, Head(messages)), Tail(messages))

\* one turn of the read loop on the chunk a read returned
HandleChunk(prev, chunk) ==
    HandlePieces(prev, SelectSeq(SplitMessages(<<>>, chunk), LAMBDA msg : msg # <<>>))

\* the events of the route up to executeCode(code), for a request that
\* passes the checks
AcceptedEvents ==
    << Event("step", "Parsing request..."), Event("step", "Checking rate limit..."),
       Event("step", "Rate limit OK (2 requests remaining)"),
       Event("step", "Validating code size..."), Event("step", "Code size OK"),
       Event("step", "Executing original code...") >>

\* the events of the route up to the end of the advisor stream, the code
\* having failed with ex and the advisor having yielded chunks
ReasonedEvents(ex, chunks) ==
    AcceptedEvents
    \o << Event("step", "Execution failed: " \o ErrorMsg(ex)),
          Event("reasoning-start", "AI is analyzing your code...") >>
    \o [i \in DOMAIN chunks |-> Event("reasoning-chunk", chunks[i])]
    \o << Event("reasoning-complete", Join(chunks)) >>

\* the responses of POST /api/debug-stream, one for each way it ends: the
\* body has no code, request.json() throws, the rate limit rejects, the code
\* is too long, executeCode throws, the code works, the advisor has no
\* candidate, the candidate is unsafe, the candidate works, the candidate
\* fails
ServerResponses ==
    LET failed == ExecuteCode("prog", "throws")
        fix    == << "Fix.", "~~~\nok()\n~~~" >>
    IN  { << Event("step", "Parsing request..."),
             Event("error", "Missing or invalid code field") >>,
          << Event("step", "Parsing request..."),
             Event("error", "Unexpected end of JSON input") >>,
          << Event("step", "Parsing request..."), Event("step", "Checking rate limit..."),
             Event("error", "Rate limit exceeded. You can make 3 requests per hour.") >>,
          SubSeq(AcceptedEvents, 1, 4)
             \o << Event("error", "Code validation failed: Code exceeds maximum length") >>,
          AcceptedEvents
             \o << Event("error", "Cannot read properties of null (reading 'message')") >>,
          AcceptedEvents \o OriginalWorksEvents(ExecuteCode("prog", "completes")),
          ReasonedEvents(failed, << "No idea." >>) \o NoCandidateEvents,
          ReasonedEvents(failed, << "~~~\nrequire('fs')\n~~~" >>) \o UnsafeEvents("require('fs')"),
          ReasonedEvents(failed, fix) \o << Event("step", "Testing fixed code...") >>
             \o FixWorksEvents(ExecuteCode("ok()", "completes"), "ok()"),
          ReasonedEvents(failed, fix) \o << Event("step", "Testing fixed code...") >>
             \o FixFailsEvents(ExecuteCode("ok()", "throws"), "ok()") }

notHook == <<now, ticks, store, failures, rlVars, pipeVars, sbVars, stVars, clVars, call>>

\* the messages of a response are five tokens each: a read that leaves a
\* body of another length ends inside a message
EndsInside(rest) == Len(rest) % 5 # 0

\* startDebug: the state is reset and the request is sent; the route will
\* answer with sent
HkStartDebug(sent) ==
    /\ hook.pc = "idle"
    /\ hook' = [pc |-> "reading", sent |-> sent, wire |-> Wire(sent),
                cuts |-> 0,
                state |-> [InitialState EXCEPT !.isStreaming = TRUE], failed |-> FALSE]
    /\ UNCHANGED notHook

\* reader.read() returns the next n tokens of the body
HkRead(n) ==
    /\ hook.pc = "reading"
    /\ n <= Len(hook.wire)
    /\ EndsInside(SubSeq(hook.wire, n + 1, Len(hook.wire))) => hook.cuts < MaxCuts
    /\ hook' = [hook EXCEPT !.state = HandleChunk(@, SubSeq(hook.wire, 1, n)),
                            !.wire = SubSeq(@, n + 1, Len(@)),
                            !.cuts = IF EndsInside(SubSeq(hook.wire, n + 1, Len(hook.wire)))
                                     THEN @ + 1 ELSE @]
    /\ UNCHANGED notHook

\* reader.read() returns done: the loop ends and startDebug returns
HkDone ==
    /\ hook.pc = "reading"
    /\ hook.wire = <<>>
    /\ hook' = [hook EXCEPT !.pc = "returned"]
    /\ UNCHANGED notHook

\* reader.read() rejects (the connection broke): the catch block
HkReadFails ==
    /\ hook.pc = "reading"
    /\ hook.wire # <<>>
    /\ hook' = [hook EXCEPT !.pc = "returned", !.failed = TRUE,
                            !.state = [@ EXCEPT !.error = "network error", !.isStreaming = FALSE]]
    /\ UNCHANGED notHook

NextHook ==
    \/ \E sent \in ServerResponses : HkStartDebug(sent)
    \/ \E n \in 1 .. MaxReadLen : HkRead(n)
    \/ HkDone
    \/ HkReadFails

SpecHook == Init /\ [][NextHook]_vars

\* C34 (as claimed): once the response has ended and startDebug has
\* returned, isStreaming is false, whatever events the response held.
C34_StreamingEnds ==
    hook.pc = "returned" => ~hook.state.isStreaming

\* the state after each event of the response was handled once, in order
RECURSIVE HandleAll(_, _)
HandleAll(prev, evs) ==
    IF evs = <<>> THEN prev ELSE HandleAll(HandleMessage(prev, Head(evs)), Tail(evs))

\* C35 (as claimed): when startDebug has read the whole response, the state
\* of the hook is the state that handling every event once, in the order
\* sent, leads to, however the reads divided the body.
C35_ReadsDoNotMatter ==
    (hook.pc = "returned" /\ ~hook.failed) =>
        LET expected == HandleAll([InitialState EXCEPT !.isStreaming = TRUE], hook.sent)
        IN  /\ hook.state.steps = expected.steps
            /\ hook.state.reasoning = expected.reasoning
            /\ hook.state.output = expected.output
            /\ hook.state.fixedCode = expected.fixedCode
            /\ hook.state.error = expected.error
            /\ hook.state.success = expected.success

\* C36 (as claimed): once a checkRateLimit call has returned, every key
\* that holds a count has an expiry (unless the call that created it has
\* yet to reach its kv.expire), also when kv.expire failed after the first
\* increment; so that every count is dropped in the end.
C36_EveryKeyExpires ==
    rlRet.valid =>
        \A k \in Keys :
            (/\ store[k].count > 0
             /\ ~\E c \in Slots : rl[c].pc = "expire" /\ rl[c].key = k)
                => store[k].expireAt # NoExpiry

\* the step makes the count of ip one more than the store held for it, and
\* leaves the counts of the other keys alone
IncrementedOnce(ip) ==
    /\ store'[KeyOf(ip)].count = Current(store, KeyOf(ip), now).count + 1
    /\ \A k \in Keys \ {KeyOf(ip)} : store'[k] = store[k]

\* the step of a request, of either variant, that calls checkRateLimitOrThrow
BufferedChecksRateLimit == pc = "RateLimit" /\ pc' # "RateLimit"
StreamChecksRateLimit == stPc = "rateLimit" /\ stPc' # "rateLimit"

\* C37 (as claimed): a request whose body parsed to a code makes the count
\* of its identity one higher, in the step that checks the rate limit, and
\* no other step of a request, before or after, changes the store: a request
\* rejected at parsing leaves the count alone, a request rejected later has
\* used one unit.
C37_OneIncrementPerRequest ==
    [][/\ BufferedChecksRateLimit => IncrementedOnce(clientIP)
       /\ StreamChecksRateLimit => IncrementedOnce(stIP)
       /\ ~(BufferedChecksRateLimit \/ StreamChecksRateLimit) => store' = store]_vars

\* C37 (amended): as claimed, except that a request whose kv.incr fails (the
\* store is unreachable) is let through with the store unchanged.
C37_OneIncrementUnlessIncrFails ==
    [][/\ BufferedChecksRateLimit =>
            IF rlFailedAt' = "incr" THEN store' = store ELSE IncrementedOnce(clientIP)
       /\ StreamChecksRateLimit =>
            \/ IncrementedOnce(stIP)
            \/ store' = store /\ failures' = failures + 1
       /\ ~(BufferedChecksRateLimit \/ StreamChecksRateLimit) => store' = store]_vars

\* C37 witness: a request that failed size validation, after its identity
\* had used a unit before, has used another one
C37_Witness ==
    /\ Done /\ rlFailedAt = None
    /\ LastStep.step = "Validate Code Size" /\ LastStep.status = "error"
    /\ response.status = 400
    /\ store[KeyOf(clientIP)].count = 2
    /\ rateLimitResult.remaining = MAX_REQUESTS_PER_HOUR - 2

\* the last record of the log with the name of its record i
LastOfStep(i) ==
    steps[CHOOSE j \in DOMAIN steps :
            /\ steps[j].step = steps[i].step
            /\ \A k \in DOMAIN steps : steps[k].step = steps[i].step => k <= j]

\* C38 (as claimed): in the log of a finished request no step is left
\* pending: the last record of every step name has status success or error,
\* also when the request ended in the catch block.
C38_NoStepLeftPending ==
    Done => \A i \in DOMAIN steps : LastOfStep(i).status \in {"success", "error"}

\* C39: a finished request has status 200 with success = false exactly when
\* both fixes were generated, both were executed and all three executions
\* failed; every other outcome without success has another status.
C39_Status200FailureOnlyAfterBothFixes ==
    Done =>
        ((response.status = 200 /\ ~response.success)
            = (/\ Len(advisorCalls) = 2 /\ Returned(1) /\ Returned(2)
               /\ Len(execs) = 3
               /\ \A i \in DOMAIN execs : ~execs[i].success /\ ~execs[i].raised))

\* C39 witness: both fixes ran and failed, and the request ended with 200
C39_Witness ==
    /\ Done
    /\ response.status = 200 /\ ~response.success
    /\ response.error = "Unable to fix code after 2 attempts"
    /\ execs[3].stage = "Execute Retry Fix" /\ ~execs[3].success

\* C40: in a response with a complete event, complete.success is true
\* exactly when an execution of the request succeeded; a response with
\* success has one output event, before complete, and a response without
\* success has none; a fixed-code event is sent at most once, and it carries
\* the candidate extracted from the text of the advisor, after the
\* reasoning was complete.
C40_CompleteReflectsExecutions ==
    /\ \A c \in Positions("complete") :
          /\ events[c].success = (\E i \in DOMAIN stExecs : stExecs[i].success)
          /\ Sent("output") = (IF events[c].success THEN 1 ELSE 0)
          /\ \A o \in Positions("output") : o < c
    /\ Sent("fixed-code") <= 1
    /\ \A f \in Positions("fixed-code") :
          /\ events[f].text # ""
          /\ events[f].text = ExtractFixedCode(fullReasoning)
          /\ \E e \in Positions("reasoning-complete") :
                e < f /\ events[e].text = fullReasoning

\* C40 witness: the candidate worked: output, fixed-code and complete with
\* success, after two executions
C40_Witness ==
    /\ stPc = "closed"
    /\ Len(stExecs) = 2 /\ stExecs[2].success
    /\ Sent("output") = 1 /\ Sent("fixed-code") = 1
    /\ events[Len(events)] = Complete(TRUE, "")

====
